---- MODULE Spec2Model ----
(***************************************************************************)
(* The action chain executor of the virtual-devices adapter                *)
(* (lib/action-chain.js): ActionChainExecutor.execute / abort /            *)
(* onStateChange with its two wait strategies, run against a state bus     *)
(* whose responses, timers and notifications interleave freely.            *)
(*                                                                         *)
(* JavaScript scheduling.  A timer callback or a bus response runs as one  *)
(* macrotask and the promise continuations it triggers run in the same     *)
(* turn, before any other event: such an action includes the continuation  *)
(* of execute() up to its next suspension.  execute(), abort() and         *)
(* onStateChange() are called synchronously by the caller, who may make    *)
(* further calls before the queued continuation runs: after such a call    *)
(* the continuation is the separate action Microtask (pc = "resume").      *)
(*                                                                         *)
(* Specifications.  Spec: an executor used for any number of runs, every   *)
(* event free to happen.  OneRunSpec: one run of a fresh executor, with    *)
(* the caller's repeated and stray calls on record.  HealthySpec: chains   *)
(* without waits on a bus that carries out every write.  MatchSpec:        *)
(* looseEquals on pairs of values.  FanSpec: a bathroom fan device         *)
(* (BathroomFanPlugin).  DehumidifierSpec: a dehumidifier device           *)
(* (SmartDehumidifierPlugin) and the adapter's handling of writes to       *)
(* output states.  FairRunSpec: one run on a bus that answers every call.  *)
(* FanBusSpec: the fan's commands as chains and on a failing bus, and the  *)
(* device's destruction.  DehumidifierRaceSpec: the dehumidifier with      *)
(* onInterval suspended at its read.  SwitchSpec: a conditional switch     *)
(* device (ConditionalSwitchPlugin, both versions).                        *)
(***************************************************************************)
EXTENDS Integers, Sequences, FiniteSets, TLC

\* Longest chain handed to execute().
MaxSteps == 2

-----------------------------------------------------------------------------
(* Values on the bus: booleans, numbers, strings (a string is its sequence  *)
(* of characters).  Null is the absent state object.                        *)

Bool(b) == [t |-> "boolean", b |-> b, n |-> 0, s |-> <<>>]
Num(n) == [t |-> "number", b |-> FALSE, n |-> n, s |-> <<>>]
Str(s) == [t |-> "string", b |-> FALSE, n |-> 0, s |-> s]
Null == [t |-> "null", b |-> FALSE, n |-> 0, s |-> <<>>]

Digits == <<"0", "1", "2", "3", "4", "5", "6", "7", "8", "9">>
UpperCase == <<"A", "B", "C", "D", "E", "F", "G", "H", "I", "J", "K", "L", "M",
               "N", "O", "P", "Q", "R", "S", "T", "U", "V", "W", "X", "Y", "Z">>
LowerCase == <<"a", "b", "c", "d", "e", "f", "g", "h", "i", "j", "k", "l", "m",
               "n", "o", "p", "q", "r", "s", "t", "u", "v", "w", "x", "y", "z">>

\* Number::toString for integers.
RECURSIVE NumberToString(_)
NumberToString(n) ==
    IF n < 0 THEN <<"-">> \o NumberToString(0 - n)
    ELSE IF n < 10 THEN <<Digits[n + 1]>>
    ELSE NumberToString(n \div 10) \o <<Digits[(n % 10) + 1]>>

\* String(x) of a boolean, number or string.
String(x) ==
    CASE x.t = "boolean" -> IF x.b THEN <<"t", "r", "u", "e">> ELSE <<"f", "a", "l", "s", "e">>
      [] x.t = "number" -> NumberToString(x.n)
      [] x.t = "string" -> x.s
      [] OTHER -> <<"n", "u", "l", "l">>

toLowerCaseChar(c) ==
    IF \E k \in 1..26 : UpperCase[k] = c
    THEN LowerCase[CHOOSE k \in 1..26 : UpperCase[k] = c]
    ELSE c

toLowerCase(str) == [k \in 1..Len(str) |-> toLowerCaseChar(str[k])]

RECURSIVE TrimStart(_)
TrimStart(str) == IF str # <<>> /\ Head(str) = " " THEN TrimStart(Tail(str)) ELSE str

RECURSIVE TrimEnd(_)
TrimEnd(str) ==
    IF str # <<>> /\ str[Len(str)] = " " THEN TrimEnd(SubSeq(str, 1, Len(str) - 1)) ELSE str

IsDigit(c) == \E k \in 1..10 : Digits[k] = c

RECURSIVE DigitsValue(_)
DigitsValue(str) ==
    IF str = <<>> THEN 0
    ELSE 10 * DigitsValue(SubSeq(str, 1, Len(str) - 1))
         + (CHOOSE k \in 1..10 : Digits[k] = str[Len(str)]) - 1

\* ToNumber of a string, for the decimal integer literals, the empty string and
\* everything that is no numeric literal (NaN).
StringToNumber(str) ==
    LET trimmed == TrimEnd(TrimStart(str))
        signed == trimmed # <<>> /\ Head(trimmed) \in {"-", "+"}
        body == IF signed THEN Tail(trimmed) ELSE trimmed
    IN  IF trimmed = <<>> THEN [nan |-> FALSE, n |-> 0]
        ELSE IF body # <<>> /\ \A k \in 1..Len(body) : IsDigit(body[k])
        THEN [nan |-> FALSE,
              n |-> IF Head(trimmed) = "-" THEN 0 - DigitsValue(body) ELSE DigitsValue(body)]
        ELSE [nan |-> TRUE, n |-> 0]

ToNumber(x) ==
    CASE x.t = "boolean" -> [nan |-> FALSE, n |-> IF x.b THEN 1 ELSE 0]
      [] x.t = "number" -> [nan |-> FALSE, n |-> x.n]
      [] OTHER -> StringToNumber(x.s)

\* The == operator of JavaScript on booleans, numbers and strings: operands of
\* one type compare as they are, operands of different types as numbers.
AbstractEquals(x, y) ==
    IF x.t = y.t THEN x = y
    ELSE /\ ~ToNumber(x).nan
         /\ ~ToNumber(y).nan
         /\ ToNumber(x).n = ToNumber(y).n

\* looseEquals comparing with === before the string comparison.
looseEqualsStrict(actual, expected) ==
    \/ actual = expected
    \/ toLowerCase(String(actual)) = toLowerCase(String(expected))

\* looseEquals without the comparison of the lowercase strings.
looseEqualsNoStrings(actual, expected) == AbstractEquals(actual, expected)

looseEquals(actual, expected) ==
    \/ AbstractEquals(actual, expected)
    \/ toLowerCase(String(actual)) = toLowerCase(String(expected))

-----------------------------------------------------------------------------
(* Chains.                                                                  *)

Targets == {"relay", "speed"}

NoWait == [type |-> "none", objectId |-> "", value |-> Null]
DelayWait == [type |-> "delay", objectId |-> "", value |-> Null]
StateWait(id, v) == [type |-> "state", objectId |-> id, value |-> v]
OtherWait == [type |-> "other", objectId |-> "", value |-> Null]

Step(id, v, w) == [objectId |-> id, value |-> v, waitBefore |-> w]

\* The steps chains are built from.
StepPool ==
    { Step("relay", Bool(TRUE), NoWait),
      Step("speed", Num(2), DelayWait),
      Step("speed", Num(1), StateWait("relay", Num(1))),
      Step("relay", Bool(FALSE), OtherWait) }

Chains == UNION {[1..n -> StepPool] : n \in 0..MaxSteps}

\* The chain argument of execute(): null, or a (possibly empty) array.
ChainArgs == {[isNull |-> TRUE, steps |-> <<>>]}
             \cup {[isNull |-> FALSE, steps |-> c] : c \in Chains}

\* The targets some step waits on.
WatchedTargets == {s.waitBefore.objectId : s \in {p \in StepPool : p.waitBefore.type = "state"}}

\* Values the environment puts on the bus and into notifications.
BusValues == {Bool(TRUE), Bool(FALSE), Str(<<"1">>)}

\* Errors a bus call rejects with.
BusErrors == {"adapter offline", "connection lost"}

NoError == [message |-> "", objectId |-> "", value |-> Null]
AbortedError == [message |-> "Action chain aborted", objectId |-> "", value |-> Null]
TimeoutError(id, v) == [message |-> "Timeout waiting for", objectId |-> id, value |-> v]
BusError(m) == [message |-> m, objectId |-> "", value |-> Null]

\* Promise states.
NoPromise == [state |-> "none", err |-> NoError]
Pending == [state |-> "pending", err |-> NoError]
Resolved == [state |-> "resolved", err |-> NoError]
Rejected(e) == [state |-> "rejected", err |-> e]

NoHandler == [set |-> FALSE, objectId |-> "", expected |-> Null, current |-> FALSE]

-----------------------------------------------------------------------------
VARIABLES
    pc,             \* where execute() is suspended
    chain,          \* the chain of the run
    i,              \* loop index of execute()
    aborted,        \* this._aborted
    timer,          \* this._timer: "none", "delay" or "timeout" (the callback armed)
    unsubscribe,    \* this._unsubscribe is set
    rejectCurrent,  \* this._rejectCurrent: "none", "delay" or "state"
    stateHandler,   \* this._stateHandler with this._stateHandlerObjectId
    settled,        \* the settled flag of the current _waitForState closure
    waitResult,     \* the promise of the current wait
    outcome,        \* the promise execute() returned
    written,        \* the writes the run has issued, in order
    states,         \* the bus: the state object of each target a wait reads
    lateRead,       \* a read whose wait has already settled is still in flight: "none",
                    \* "current" (a read of the current closure) or "earlier"
    warned,         \* the run has logged a warning
    \* History of the run, read by the properties only:
    completed,      \* the number of writes of the run the bus has carried out
    waitEndedBy,    \* what settled the wait of the current step
    abortedDuring,  \* pc at the first abort() since execute() was called
    abortedAgain,   \* abort() was called again after that first abort()
    strays,         \* the situations in which onStateChange(id, ...) was called while
                    \* no state wait was pending on id
    matchAfterAbort, \* a matching notification for the aborted state wait came after the abort
    matchDuringRead, \* the awaited target held a matching value on the bus, and its
                    \* notification was delivered, while the initial read of the
                    \* current state wait was in flight
    failure         \* the bus call that was rejected, and its error

\* The other parts of the adapter, each with a specification of its own.
VARIABLES
    match,          \* a call of looseEquals: its arguments and what it returned
    fan,            \* a bathroom fan device: configuration, inputs, runtime, outputs
    dehum,          \* a dehumidifier device, the clock, and the write to an output handled last
    sw              \* a conditional switch device: configuration, inputs, outputs

\* The variables of the executor, and those of the other parts.
executorVars == <<pc, chain, i, aborted, timer, unsubscribe, rejectCurrent, stateHandler,
                  settled, waitResult, outcome, written, states, lateRead, warned,
                  completed, waitEndedBy, abortedDuring, abortedAgain, strays,
                  matchAfterAbort, matchDuringRead, failure>>
otherVars == <<match, fan, dehum, sw>>

vars == <<pc, chain, i, aborted, timer, unsubscribe, rejectCurrent, stateHandler,
          settled, waitResult, outcome, written, states, lateRead, warned,
          completed, waitEndedBy, abortedDuring, abortedAgain, strays, matchAfterAbort,
          matchDuringRead, failure, match, fan, dehum, sw>>

\* No call of looseEquals was made.
NoCall == [actual |-> Null, expected |-> Null, called |-> FALSE, result |-> FALSE]

\* No device of a kind is running.
NoDevice == [plugin |-> "none"]

NoFailure == [op |-> "none", message |-> ""]

\* The state as one record, for the functions below.
Cur == [pc |-> pc, chain |-> chain, i |-> i, aborted |-> aborted, timer |-> timer,
        unsubscribe |-> unsubscribe, rejectCurrent |-> rejectCurrent,
        stateHandler |-> stateHandler, settled |-> settled, waitResult |-> waitResult,
        outcome |-> outcome, written |-> written, states |-> states,
        lateRead |-> lateRead, warned |-> warned,
        completed |-> completed, waitEndedBy |-> waitEndedBy,
        abortedDuring |-> abortedDuring, abortedAgain |-> abortedAgain,
        strays |-> strays,
        matchAfterAbort |-> matchAfterAbort,
        matchDuringRead |-> matchDuringRead,
        failure |-> failure]

\* The executor takes the state s, which is computed once.
Becomes(s) ==
    \E t \in {s} :
        /\ pc' = t.pc
        /\ chain' = t.chain
        /\ i' = t.i
        /\ aborted' = t.aborted
        /\ timer' = t.timer
        /\ unsubscribe' = t.unsubscribe
        /\ rejectCurrent' = t.rejectCurrent
        /\ stateHandler' = t.stateHandler
        /\ settled' = t.settled
        /\ waitResult' = t.waitResult
        /\ outcome' = t.outcome
        /\ written' = t.written
        /\ states' = t.states
        /\ lateRead' = t.lateRead
        /\ warned' = t.warned
        /\ completed' = t.completed
        /\ waitEndedBy' = t.waitEndedBy
        /\ abortedDuring' = t.abortedDuring
        /\ abortedAgain' = t.abortedAgain
        /\ strays' = t.strays
        /\ matchAfterAbort' = t.matchAfterAbort
        /\ matchDuringRead' = t.matchDuringRead
        /\ failure' = t.failure
        /\ UNCHANGED otherVars

\* The executor as constructed.
ExecutorInit ==
    /\ pc = "idle"
    /\ chain = <<>>
    /\ i = 0
    /\ aborted = FALSE
    /\ timer = "none"
    /\ unsubscribe = FALSE
    /\ rejectCurrent = "none"
    /\ stateHandler = NoHandler
    /\ settled = FALSE
    /\ waitResult = NoPromise
    /\ outcome = NoPromise
    /\ written = <<>>
    /\ states = [id \in WatchedTargets |-> Null]
    /\ lateRead = "none"
    /\ warned = FALSE
    /\ completed = 0
    /\ waitEndedBy = "none"
    /\ abortedDuring = "none"
    /\ abortedAgain = FALSE
    /\ strays = {}
    /\ matchAfterAbort = FALSE
    /\ matchDuringRead = FALSE
    /\ failure = NoFailure

Init ==
    /\ ExecutorInit
    /\ match = NoCall
    /\ fan = NoDevice
    /\ dehum = NoDevice
    /\ sw = NoDevice

-----------------------------------------------------------------------------
(* The executor's code as functions from state to state.                    *)

\* The step the loop of execute() is at.
CurrentStep(s) == s.chain[s.i + 1]

\* resolve() / reject(err) of the current wait's promise; the continuation of
\* execute() is queued.  A settled promise ignores further calls.
resolveWait(s) ==
    IF s.waitResult.state = "pending"
    THEN [s EXCEPT !.waitResult = Resolved, !.pc = "resume"]
    ELSE s

rejectWait(s, err) ==
    IF s.waitResult.state = "pending"
    THEN [s EXCEPT !.waitResult = Rejected(err), !.pc = "resume"]
    ELSE s

\* cleanup() that leaves the timer armed.
cleanupKeepsTimer(s) == [s EXCEPT !.unsubscribe = FALSE, !.rejectCurrent = "none"]

\* cleanup() of _waitForState.
cleanup(s) ==
    [s EXCEPT !.timer = "none", !.unsubscribe = FALSE, !.rejectCurrent = "none"]

\* settle(err) of _waitForState; NoError stands for settle(null).
settle(s, err) ==
    IF s.settled THEN s
    ELSE LET c == cleanup([s EXCEPT !.settled = TRUE])
         IN  IF err # NoError THEN rejectWait(c, err) ELSE resolveWait(c)

\* `throw err` inside execute(): the run rejects.
throw(s, err) == [s EXCEPT !.pc = "done", !.outcome = Rejected(err)]

\* The write issued with ack = true.
issueWriteAcked(s) ==
    [s EXCEPT !.written = Append(@, [id |-> CurrentStep(s).objectId,
                                     value |-> CurrentStep(s).value,
                                     ack |-> TRUE]),
              !.pc = "write"]

\* adapter.setForeignStateAsync(step.objectId, step.value, false) is called.
issueWrite(s) ==
    [s EXCEPT !.written = Append(@, [id |-> CurrentStep(s).objectId,
                                     value |-> CurrentStep(s).value,
                                     ack |-> FALSE]),
              !.pc = "write"]

\* afterWait without the abort check after the wait.
afterWaitNoAbortCheck(s) == issueWrite(s)

\* execute() after the wait of a step: the second abort check and the write.
afterWait(s) == IF s.aborted THEN throw(s, AbortedError) ELSE issueWrite(s)

\* _delay(ms): the timer is armed.
delay(s) ==
    [s EXCEPT !.rejectCurrent = "delay", !.timer = "delay",
              !.waitResult = Pending, !.pc = "delay"]

\* _waitForState up to the read it issues: a new closure with settled = false.
\* A handler still registered belongs to an earlier closure from here on.
waitForState(s) ==
    [s EXCEPT !.settled = FALSE, !.stateHandler.current = FALSE,
              !.lateRead = IF @ = "current" THEN "earlier" ELSE @,
              !.rejectCurrent = "state", !.waitResult = Pending, !.pc = "read"]

\* _wait that rejects for a condition of unknown type.
waitRejectsUnknown(s, condition) ==
    CASE condition.type = "delay" -> delay(s)
      [] condition.type = "state" -> waitForState(s)
      [] OTHER -> rejectWait([s EXCEPT !.warned = TRUE, !.waitResult = Pending],
                             [message |-> "Unknown wait condition type",
                              objectId |-> "", value |-> Null])

\* _wait(adapter, condition, log).
wait(s, condition) ==
    CASE condition.type = "delay" -> delay(s)
      [] condition.type = "state" -> waitForState(s)
      [] OTHER -> resolveWait([s EXCEPT !.warned = TRUE, !.waitResult = Pending])

\* The loop of execute() calling _wait without awaiting it.
iterationNoAwait(s) ==
    IF s.i >= Len(s.chain) THEN [s EXCEPT !.pc = "done", !.outcome = Resolved]
    ELSE IF s.aborted THEN throw(s, AbortedError)
    ELSE IF CurrentStep(s).waitBefore.type # "none"
         THEN afterWait(wait(s, CurrentStep(s).waitBefore))
         ELSE afterWait(s)

\* One pass of the loop of execute() from its top, up to the first suspension.
iteration(s) ==
    IF s.i >= Len(s.chain) THEN [s EXCEPT !.pc = "done", !.outcome = Resolved]
    ELSE IF s.aborted THEN throw(s, AbortedError)
    ELSE IF CurrentStep(s).waitBefore.type # "none"
         THEN wait(s, CurrentStep(s).waitBefore)
         ELSE afterWait(s)

\* execute() that resets the abort flag before it looks at the chain.
executeResetsAbortFirst(s, arg) ==
    IF arg.isNull \/ Len(arg.steps) = 0
    THEN [s EXCEPT !.aborted = FALSE, !.chain = <<>>, !.i = 0, !.pc = "done",
                   !.outcome = Resolved]
    ELSE iteration([s EXCEPT !.aborted = FALSE, !.chain = arg.steps, !.i = 0,
                             !.outcome = Pending])

\* execute(adapter, chain, log) up to the first suspension.
execute(s, arg) ==
    IF arg.isNull \/ Len(arg.steps) = 0
    THEN [s EXCEPT !.chain = <<>>, !.i = 0, !.pc = "done", !.outcome = Resolved]
    ELSE iteration([s EXCEPT !.aborted = FALSE, !.chain = arg.steps, !.i = 0,
                             !.outcome = Pending])

\* The continuation of execute() after `await this._wait(...)`.
resume(s) ==
    IF s.waitResult.state = "rejected" THEN throw(s, s.waitResult.err) ELSE afterWait(s)

\* The promise continuations queued in a turn run before the next event.
drain(s) == IF s.pc = "resume" THEN resume(s) ELSE s

\* The _unsubscribe closure.
unsubscribeFn(s) == [s EXCEPT !.stateHandler = NoHandler]

\* The _rejectCurrent closure, of _delay or of _waitForState.
rejectCurrentFn(s) ==
    IF s.rejectCurrent = "delay" THEN rejectWait(s, AbortedError)
    ELSE settle(s, AbortedError)

\* abort() that flips the abort flag instead of setting it.
abortToggles(s) ==
    LET s1 == [s EXCEPT !.aborted = ~@]
        s2 == IF s1.timer # "none" THEN [s1 EXCEPT !.timer = "none"] ELSE s1
        s3 == IF s2.unsubscribe
              THEN [unsubscribeFn(s2) EXCEPT !.unsubscribe = FALSE]
              ELSE s2
        s4 == IF s3.rejectCurrent # "none"
              THEN [rejectCurrentFn(s3) EXCEPT !.rejectCurrent = "none"]
              ELSE s3
    IN  s4

\* abort() that also rejects the promise execute() returned.
abortRejectsRun(s) ==
    LET s1 == [s EXCEPT !.aborted = TRUE]
        s2 == IF s1.timer # "none" THEN [s1 EXCEPT !.timer = "none"] ELSE s1
        s3 == IF s2.unsubscribe
              THEN [unsubscribeFn(s2) EXCEPT !.unsubscribe = FALSE]
              ELSE s2
        s4 == IF s3.rejectCurrent # "none"
              THEN [rejectCurrentFn(s3) EXCEPT !.rejectCurrent = "none"]
              ELSE s3
    IN  [s4 EXCEPT !.outcome = Rejected(AbortedError)]

\* abort() that does not cancel the timer.
abortKeepsTimer(s) ==
    LET s1 == [s EXCEPT !.aborted = TRUE]
        s3 == IF s1.unsubscribe
              THEN [unsubscribeFn(s1) EXCEPT !.unsubscribe = FALSE]
              ELSE s1
        s4 == IF s3.rejectCurrent # "none"
              THEN [rejectCurrentFn(s3) EXCEPT !.rejectCurrent = "none"]
              ELSE s3
    IN  s4

\* abort() that drops the reject callback of the pending wait without calling it.
abortLeavesWait(s) ==
    LET s1 == [s EXCEPT !.aborted = TRUE]
        s2 == IF s1.timer # "none" THEN [s1 EXCEPT !.timer = "none"] ELSE s1
        s3 == IF s2.unsubscribe
              THEN [unsubscribeFn(s2) EXCEPT !.unsubscribe = FALSE]
              ELSE s2
    IN  [s3 EXCEPT !.rejectCurrent = "none"]

\* abort().
abort(s) ==
    LET s1 == [s EXCEPT !.aborted = TRUE]
        s2 == IF s1.timer # "none" THEN [s1 EXCEPT !.timer = "none"] ELSE s1
        s3 == IF s2.unsubscribe
              THEN [unsubscribeFn(s2) EXCEPT !.unsubscribe = FALSE]
              ELSE s2
        s4 == IF s3.rejectCurrent # "none"
              THEN [rejectCurrentFn(s3) EXCEPT !.rejectCurrent = "none"]
              ELSE s3
    IN  s4

\* A handler that settles the wait on any state of the target it watches.
handlerIgnoresValue(s, id, state) ==
    IF id = s.stateHandler.objectId /\ state # Null
    THEN IF s.stateHandler.current THEN settle(s, NoError) ELSE s
    ELSE s

\* The handler closure of _waitForState called with (id, state).  The closure of
\* an earlier wait has settled = true (a wait ends only through settle), so
\* its settle() returns at once.
handler(s, id, state) ==
    IF id = s.stateHandler.objectId /\ state # Null
       /\ looseEquals(state, s.stateHandler.expected)
    THEN IF s.stateHandler.current THEN settle(s, NoError) ELSE s
    ELSE s

\* onStateChange that hands every notification to the handler as one for the
\* target the handler watches.
onStateChangeAnyTarget(s, id, state) ==
    IF s.stateHandler.set
    THEN handler(s, s.stateHandler.objectId, state)
    ELSE s

\* onStateChange(id, state).
onStateChange(s, id, state) ==
    IF s.stateHandler.set /\ id = s.stateHandler.objectId
    THEN handler(s, id, state)
    ELSE s

\* The callback _delay armed.
delayTimerFired(s) ==
    resolveWait([s EXCEPT !.timer = "none", !.rejectCurrent = "none"])

\* A timeout callback that settles the wait with the aborted error.
timeoutTimerFiredAsAbort(s) == settle(s, AbortedError)

\* A timeout callback that settles the wait without an error.
timeoutTimerFiredResolves(s) == settle(s, NoError)

\* The callback the timeout timer of _waitForState runs.
timeoutTimerFired(s) ==
    settle(s, TimeoutError(CurrentStep(s).waitBefore.objectId,
                           CurrentStep(s).waitBefore.value))

\* The then-callback without its `if (settled) return`.
readReturnedUnguarded(s, currentState) ==
    IF currentState # Null /\ looseEquals(currentState, CurrentStep(s).waitBefore.value)
    THEN settle(s, NoError)
    ELSE [s EXCEPT !.stateHandler = [set |-> TRUE,
                                     objectId |-> CurrentStep(s).waitBefore.objectId,
                                     expected |-> CurrentStep(s).waitBefore.value,
                                     current |-> TRUE],
                   !.unsubscribe = TRUE,
                   !.timer = "timeout",
                   !.pc = "watch"]

\* The then-callback comparing with === instead of looseEquals.
readReturnedStrictEquals(s, currentState) ==
    IF s.settled THEN s
    ELSE IF currentState # Null /\ currentState = CurrentStep(s).waitBefore.value
    THEN settle(s, NoError)
    ELSE [s EXCEPT !.stateHandler = [set |-> TRUE,
                                     objectId |-> CurrentStep(s).waitBefore.objectId,
                                     expected |-> CurrentStep(s).waitBefore.value,
                                     current |-> TRUE],
                   !.unsubscribe = TRUE,
                   !.timer = "timeout",
                   !.pc = "watch"]

\* The then-callback of the initial read of _waitForState.
readReturned(s, currentState) ==
    IF s.settled THEN s
    ELSE IF currentState # Null /\ looseEquals(currentState, CurrentStep(s).waitBefore.value)
    THEN settle(s, NoError)
    ELSE [s EXCEPT !.stateHandler = [set |-> TRUE,
                                     objectId |-> CurrentStep(s).waitBefore.objectId,
                                     expected |-> CurrentStep(s).waitBefore.value,
                                     current |-> TRUE],
                   !.unsubscribe = TRUE,
                   !.timer = "timeout",
                   !.pc = "watch"]

\* The catch-callback of the initial read.
readFailed(s, err) == settle(s, err)

\* execute() that looks at the abort flag as soon as the awaited write has
\* completed, also after the last step.
writeReturnedChecksAbort(s) ==
    IF s.aborted THEN throw([s EXCEPT !.i = @ + 1], AbortedError)
    ELSE iteration([s EXCEPT !.i = @ + 1])

\* execute() when the awaited write has completed: i++ and the next pass.
writeReturned(s) == iteration([s EXCEPT !.i = @ + 1])

\* execute() wrapping the error of the write into an error of its own that
\* names the step's target and index.
writeFailedWraps(s, err) ==
    throw(s, [message |-> "WriteFailure", objectId |-> CurrentStep(s).objectId,
              value |-> Num(s.i)])

\* execute() swallowing the error of the write and going on.
writeFailedContinues(s, err) == iteration([s EXCEPT !.i = @ + 1])

\* execute() when the awaited write has rejected.
writeFailed(s, err) == throw(s, err)

-----------------------------------------------------------------------------
(* Actions.                                                                 *)

\* History: `after` with the cause recorded if the step settled the pending wait.
EndedBy(cause, before, after) ==
    IF before.waitResult.state = "pending" /\ after.waitResult.state # "pending"
    THEN [after EXCEPT !.waitEndedBy = cause]
    ELSE after

\* The state a run starts from: the run's log and history are empty.
NewRun ==
    [Cur EXCEPT !.written = <<>>, !.warned = FALSE, !.waitResult = NoPromise,
                !.completed = 0, !.waitEndedBy = "none", !.abortedDuring = "none",
                !.abortedAgain = FALSE, !.strays = {},
                !.matchAfterAbort = FALSE, !.matchDuringRead = FALSE,
                !.failure = NoFailure,
                !.lateRead = IF @ = "current" THEN "earlier" ELSE @]

\* The caller calls execute(adapter, chain, log) on an executor that runs no chain.
Execute ==
    /\ pc \in {"idle", "done"}
    /\ \E arg \in ChainArgs : Becomes(execute(NewRun, arg))

\* The queued continuation of execute() runs.
Microtask ==
    /\ pc = "resume"
    /\ Becomes(resume(Cur))

\* The places execute() can be at: not called yet, suspended in a wait (delay
\* timer; initial read; handler and timeout), its continuation queued,
\* suspended in a write, or returned.
Locations == {"idle", "delay", "read", "watch", "resume", "write", "done"}

\* The caller calls abort(), at any time.
Abort ==
    /\ pc \in Locations
    /\ Becomes([EndedBy("abort", Cur, abort(Cur)) EXCEPT
                   !.lateRead = IF pc = "read" THEN "current" ELSE @,
                   !.abortedDuring = IF @ = "none" THEN pc ELSE @])

\* The notification (id, state) matches the state wait that was aborted.
MatchesAbortedWait(id, state) ==
    /\ abortedDuring \in {"read", "watch"}
    /\ id = CurrentStep(Cur).waitBefore.objectId
    /\ state # Null
    /\ looseEquals(state, CurrentStep(Cur).waitBefore.value)

\* The caller calls onStateChange(id, state), at any time.
OnStateChange ==
    /\ pc \in Locations
    /\ \E id \in Targets, state \in BusValues \cup {Null} :
         Becomes([EndedBy("notify", Cur, onStateChange(Cur, id, state)) EXCEPT
                     !.matchAfterAbort = @ \/ MatchesAbortedWait(id, state)])

\* The armed timer fires.
TimerFires ==
    /\ timer # "none"
    /\ pc # "resume"
    /\ Becomes(drain(IF timer = "delay"
                     THEN EndedBy("timer", Cur, delayTimerFired(Cur))
                     ELSE EndedBy("timeout", Cur, timeoutTimerFired(Cur))))

\* The bus answers the initial read of the pending state wait.
ReadReturns ==
    /\ pc = "read"
    /\ \E currentState \in {states[CurrentStep(Cur).waitBefore.objectId]} :
         Becomes(drain(EndedBy("read", Cur, readReturned(Cur, currentState))))

\* The bus rejects the initial read of the pending state wait.
ReadFails ==
    /\ pc = "read"
    /\ \E m \in BusErrors :
         Becomes(drain(EndedBy("readError",
                               [Cur EXCEPT !.failure = [op |-> "read", message |-> m]],
                               readFailed([Cur EXCEPT !.failure = [op |-> "read", message |-> m]],
                                          BusError(m)))))

\* The bus answers a read whose wait has settled meanwhile.  The callback of
\* the current closure finds its settled flag; the closure of an earlier wait
\* has settled = true and returns at once.
LateReadReturns ==
    /\ lateRead # "none"
    /\ pc # "resume"
    /\ IF lateRead = "current"
       THEN Becomes([readReturned(Cur, states[CurrentStep(Cur).waitBefore.objectId])
                        EXCEPT !.lateRead = "none"])
       ELSE Becomes([Cur EXCEPT !.lateRead = "none"])

\* The bus rejects a read whose wait has settled meanwhile.
LateReadFails ==
    /\ lateRead # "none"
    /\ pc # "resume"
    /\ \E m \in BusErrors :
         IF lateRead = "current"
         THEN Becomes([readFailed(Cur, BusError(m)) EXCEPT !.lateRead = "none"])
         ELSE Becomes([Cur EXCEPT !.lateRead = "none"])

\* The bus has carried out the write in flight.
WriteReturns ==
    /\ pc = "write"
    /\ Becomes(drain(writeReturned(
           [Cur EXCEPT !.states = [id \in WatchedTargets |->
                                      IF id = CurrentStep(Cur).objectId
                                      THEN CurrentStep(Cur).value ELSE @[id]],
                       !.completed = @ + 1,
                       !.waitEndedBy = "none",
                       !.matchDuringRead = FALSE])))

\* The bus rejects the write in flight.
WriteFails ==
    /\ pc = "write"
    /\ \E m \in BusErrors :
         Becomes(writeFailed([Cur EXCEPT !.failure = [op |-> "write", message |-> m]],
                             BusError(m)))

\* Another writer changes a state on the bus.
BusChange ==
    /\ \E id \in WatchedTargets, v \in BusValues : states' = [states EXCEPT ![id] = v]
    /\ UNCHANGED <<pc, chain, i, aborted, timer, unsubscribe, rejectCurrent, stateHandler,
                   settled, waitResult, outcome, written, lateRead, warned,
                   completed, waitEndedBy, abortedDuring, abortedAgain, strays,
                   matchAfterAbort, matchDuringRead, failure>>
    /\ UNCHANGED otherVars

Next ==
    \/ Execute
    \/ Microtask
    \/ Abort
    \/ OnStateChange
    \/ TimerFires
    \/ ReadReturns
    \/ ReadFails
    \/ LateReadReturns
    \/ LateReadFails
    \/ WriteReturns
    \/ WriteFails
    \/ BusChange

Spec == Init /\ [][Next]_vars

-----------------------------------------------------------------------------
(* One run of a fresh executor, with the caller's calls on record: which    *)
(* abort() was a repeated one, which notifications came for a target no     *)
(* state wait was pending on, and which found the initial read in flight.   *)

\* execute() is called once, on the executor as constructed or aborted.
ExecuteOnce ==
    /\ pc = "idle"
    /\ \E arg \in ChainArgs : Becomes(execute(NewRun, arg))

\* The caller calls abort(); a call after the first one of the run is recorded.
AbortRecorded ==
    /\ pc \in Locations
    /\ Becomes([EndedBy("abort", Cur, abort(Cur)) EXCEPT
                   !.lateRead = IF pc = "read" THEN "current" ELSE @,
                   !.abortedDuring = IF @ = "none" THEN pc ELSE @,
                   !.abortedAgain = @ \/ abortedDuring # "none"])

\* A state wait is pending on id: its read is in flight or its handler waits.
StateWaitPendingOn(id) ==
    /\ pc \in {"read", "watch"}
    /\ CurrentStep(Cur).waitBefore.objectId = id

\* What is pending when a notification arrives.
Situation ==
    CASE pc = "delay" -> "delay wait"
      [] pc \in {"read", "watch"} -> "state wait on another target"
      [] OTHER -> "no wait"

\* The notification (id, state) reports the value the bus holds for the target
\* of the pending state wait, that value matches the wait, and the initial read
\* of the wait has not been answered yet.
MatchesDuringRead(id, state) ==
    /\ pc = "read"
    /\ id = CurrentStep(Cur).waitBefore.objectId
    /\ state # Null
    /\ state = states[id]
    /\ looseEquals(state, CurrentStep(Cur).waitBefore.value)

\* The caller calls onStateChange(id, state); a call for a target no state wait
\* is pending on is recorded, and so is a matching one that finds the initial
\* read of the wait in flight.
NotifyRecorded ==
    /\ pc \in Locations
    /\ \E id \in Targets, state \in BusValues \cup {Null} :
         Becomes([EndedBy("notify", Cur, onStateChange(Cur, id, state)) EXCEPT
                     !.matchAfterAbort = @ \/ MatchesAbortedWait(id, state),
                     !.matchDuringRead = @ \/ MatchesDuringRead(id, state),
                     !.strays = IF StateWaitPendingOn(id) THEN @
                                ELSE @ \cup {Situation}])

OneRunNext ==
    \/ ExecuteOnce
    \/ Microtask
    \/ AbortRecorded
    \/ NotifyRecorded
    \/ TimerFires
    \/ ReadReturns
    \/ ReadFails
    \/ LateReadReturns
    \/ LateReadFails
    \/ WriteReturns
    \/ WriteFails
    \/ BusChange

OneRunSpec == Init /\ [][OneRunNext]_vars

\* One run of a fresh executor, without the record of the caller's calls.
FairRunNext ==
    \/ ExecuteOnce
    \/ Microtask
    \/ Abort
    \/ OnStateChange
    \/ TimerFires
    \/ ReadReturns
    \/ ReadFails
    \/ LateReadReturns
    \/ LateReadFails
    \/ WriteReturns
    \/ WriteFails
    \/ BusChange

\* One run on a bus that answers every call and with timers that fire unless
\* cancelled; the queued continuation of execute() runs.
FairRunSpec ==
    /\ Init /\ [][FairRunNext]_vars
    /\ WF_vars(Microtask)
    /\ WF_vars(TimerFires)
    /\ WF_vars(ReadReturns \/ ReadFails)
    /\ WF_vars(WriteReturns \/ WriteFails)

-----------------------------------------------------------------------------
(* Chains without waits on a bus that carries out every write: nobody       *)
(* aborts, no bus call is rejected, and a write issued is answered.         *)

\* Steps without waitBefore.
NoWaitPool ==
    { Step("relay", Bool(TRUE), NoWait),
      Step("speed", Num(2), NoWait),
      Step("mode", Str(<<"a", "u", "t", "o">>), NoWait) }

NoWaitArgs ==
    {[isNull |-> FALSE, steps |-> c] : c \in UNION {[1..n -> NoWaitPool] : n \in 1..MaxSteps}}

\* The caller calls execute() with a chain without waits.
ExecuteNoWait ==
    /\ pc \in {"idle", "done"}
    /\ \E arg \in NoWaitArgs : Becomes(execute(NewRun, arg))

HealthyNext ==
    \/ ExecuteNoWait
    \/ OnStateChange
    \/ WriteReturns
    \/ BusChange

HealthySpec == Init /\ [][HealthyNext]_vars /\ WF_vars(WriteReturns)

-----------------------------------------------------------------------------
(* looseEquals called on its own, for every pair of the values below.       *)

\* Booleans, numbers, and strings: empty, numeric (plain, padded with a zero
\* or a blank), the names of the booleans in both cases, and a word.
MatchValues ==
    { Bool(TRUE), Bool(FALSE), Num(0), Num(1), Num(2),
      Str(<<>>), Str(<<"0">>), Str(<<"1">>), Str(<<"0", "1">>), Str(<<" ", "1">>),
      Str(<<"t", "r", "u", "e">>), Str(<<"T", "R", "U", "E">>),
      Str(<<"f", "a", "l", "s", "e">>), Str(<<"o", "n">>), Str(<<"O", "n">>) }

MatchInit ==
    /\ ExecutorInit
    /\ match \in {[actual |-> a, expected |-> e, called |-> FALSE, result |-> FALSE] :
                     a \in MatchValues, e \in MatchValues}
    /\ fan = NoDevice
    /\ dehum = NoDevice
    /\ sw = NoDevice

\* looseEquals(actual, expected) is called and returns.
Compare ==
    /\ ~match.called
    /\ match' = [match EXCEPT !.called = TRUE,
                              !.result = looseEquals(match.actual, match.expected)]
    /\ UNCHANGED executorVars
    /\ UNCHANGED <<fan, dehum, sw>>

MatchNext == Compare

MatchSpec == MatchInit /\ [][MatchNext]_vars

-----------------------------------------------------------------------------
(* The bathroom fan plugin (BathroomFanPlugin).  Every handler runs to its  *)
(* end before the next event; the fan command is written directly to the    *)
(* fanCommand datapoint, as with the context the adapter builds, or through *)
(* an action chain when the context has executeChain.                       *)

\* The values a device is configured with: numeric with and without a speed
\* value, a speed value below the ON value, and values that are no numbers.
FanValues ==
    { <<Str(<<"1">>), Str(<<"0">>), Str(<<>>)>>,
      <<Str(<<"1">>), Str(<<"0">>), Str(<<"3">>)>>,
      <<Str(<<"2">>), Str(<<"0">>), Str(<<"1">>)>>,
      <<Str(<<"o", "n">>), Str(<<"o", "f", "f">>), Str(<<"h", "i", "g", "h">>)>> }

\* A device configuration: the raw settings, and whether the presence sensor
\* and the door contact are mapped.  The last one is the default configuration
\* of a device with the required inputs only.
FanConfigs ==
    { [fanOnValue |-> v[1], fanOffValue |-> v[2], fanSpeedValue |-> v[3],
       offDelay |-> seconds, presenceMapped |-> TRUE,
       executeChain |-> FALSE, chains |-> [on |-> <<>>, off |-> <<>>]] :
        v \in FanValues, seconds \in {0, 120} }
    \cup { [fanOnValue |-> Str(<<"1">>), fanOffValue |-> Str(<<"0">>),
            fanSpeedValue |-> Str(<<>>), offDelay |-> 120, presenceMapped |-> FALSE,
            executeChain |-> FALSE, chains |-> [on |-> <<>>, off |-> <<>>]] }

humidityThreshold == 65
humidityHysteresis == 5
statusOffValue == Str(<<"0">>)
presenceActiveValue == Str(<<"t", "r", "u", "e">>)
doorClosedValue == Str(<<"f", "a", "l", "s", "e">>)

\* Readings of the humidity sensor: below the band, its lower edge, inside
\* it, its upper edge (the threshold), and above.
HumidityReadings == {Num(59), Num(60), Num(62), Num(65), Num(70)}

parseConfigValue(val) ==
    IF val = Str(<<>>) \/ val = Null THEN val
    ELSE LET s == toLowerCase(TrimEnd(TrimStart(String(val))))
         IN  IF s = <<"t", "r", "u", "e">> THEN Bool(TRUE)
             ELSE IF s = <<"f", "a", "l", "s", "e">> THEN Bool(FALSE)
             ELSE IF ~ToNumber(val).nan /\ TrimEnd(TrimStart(String(val))) # <<>>
             THEN Num(ToNumber(val).n)
             ELSE Str(String(val))

\* _evaluateHumidity turning the trigger on at the threshold already.
evaluateHumidityAtThreshold(f, humidity) ==
    IF humidity >= humidityThreshold /\ ~f.humidityTrigger
    THEN [f EXCEPT !.humidityTrigger = TRUE]
    ELSE IF humidity < humidityThreshold - humidityHysteresis /\ f.humidityTrigger
    THEN [f EXCEPT !.humidityTrigger = FALSE]
    ELSE f

evaluateHumidity(f, humidity) ==
    IF humidity > humidityThreshold /\ ~f.humidityTrigger
    THEN [f EXCEPT !.humidityTrigger = TRUE]
    ELSE IF humidity < humidityThreshold - humidityHysteresis /\ f.humidityTrigger
    THEN [f EXCEPT !.humidityTrigger = FALSE]
    ELSE f

\* The humidity re-evaluated from the sensor's current state, if it has one.
evaluateCurrentHumidity(f) ==
    IF f.inputs.humiditySensor = Null \/ ToNumber(f.inputs.humiditySensor).nan THEN f
    ELSE evaluateHumidity(f, ToNumber(f.inputs.humiditySensor).n)

evaluatePresence(f) ==
    IF ~f.cfg.presenceMapped THEN [f EXCEPT !.presenceTrigger = FALSE]
    ELSE IF f.inputs.presenceSensor = Null \/ f.inputs.doorContact = Null
    THEN [f EXCEPT !.presenceTrigger = FALSE]
    ELSE [f EXCEPT !.presenceTrigger =
              /\ looseEquals(f.inputs.presenceSensor, presenceActiveValue)
              /\ looseEquals(f.inputs.doorContact, doorClosedValue)]

\* clearTimeout(rt.offTimer); rt.offTimer = null, for an armed timer.
cancelOffTimer(f) ==
    IF f.offTimer THEN [f EXCEPT !.offTimer = FALSE, !.timers = @ - 1, !.cancelled = TRUE]
    ELSE f

\* new ActionChainExecutor(): the executor as constructed.
NewExecutor ==
    [pc |-> "idle", chain |-> <<>>, i |-> 0, aborted |-> FALSE, timer |-> "none",
     unsubscribe |-> FALSE, rejectCurrent |-> "none", stateHandler |-> NoHandler,
     settled |-> FALSE, waitResult |-> NoPromise, outcome |-> NoPromise,
     written |-> <<>>, states |-> [id \in WatchedTargets |-> Null],
     lateRead |-> "none", warned |-> FALSE, completed |-> 0, waitEndedBy |-> "none",
     abortedDuring |-> "none", abortedAgain |-> FALSE, strays |-> {},
     matchAfterAbort |-> FALSE, matchDuringRead |-> FALSE, failure |-> NoFailure]

\* executeChain(adapter, chain, log): a new executor with execute() called on
\* it and not awaited.
executeChain(steps) == execute(NewExecutor, [isNull |-> FALSE, steps |-> steps])

\* _buildChain(ctx, value).
buildChain(f, value) ==
    LET isOn == ~looseEquals(value, parseConfigValue(f.cfg.fanOffValue))
        configured == IF isOn THEN f.cfg.chains.on ELSE f.cfg.chains.off
    IN  IF Len(configured) > 0 THEN configured
        ELSE <<Step("fanCommand", value, NoWait)>>

\* The value of the write to the fanCommand datapoint among the writes an
\* executor issued after its first `before` ones, or Null.
FanCommandIssued(e, before) ==
    IF Len(e.written) > before /\ e.written[Len(e.written)].id = "fanCommand"
    THEN e.written[Len(e.written)].value
    ELSE Null

\* _sendFanCommand(ctx, value).  With ctx.executeChain the chain is started and
\* runs on in the background; rt.activeChainExecutor (the index of the chain,
\* or 0) is assigned when executeChain has returned and cleared by the finally
\* block.  Without it the value is written directly, and a write the bus
\* rejects ends the handler with the error.
sendFanCommand(f, value) ==
    IF f.lastCommandValue = value THEN f
    ELSE LET f1 == IF f.activeChainExecutor # 0
                   THEN [f EXCEPT !.chains[f.activeChainExecutor] = abort(@),
                                  !.activeChainExecutor = 0]
                   ELSE f
             f2 == [f1 EXCEPT !.lastCommandValue = value]
             isOn == ~looseEquals(value, f.cfg.fanOffValue)
         IN  IF f2.cfg.executeChain
             THEN LET f3 == [f2 EXCEPT !.chains = Append(@, executeChain(buildChain(f2, value)))]
                      f4 == [f3 EXCEPT !.activeChainExecutor = Len(f3.chains)]
                  IN  [f4 EXCEPT !.activeChainExecutor = 0,
                                 !.sent = FanCommandIssued(f3.chains[Len(f3.chains)], 0),
                                 !.active = isOn]
             ELSE IF f2.busDown THEN [f2 EXCEPT !.threw = TRUE]
             ELSE [f2 EXCEPT !.sent = value, !.active = isOn]

\* Both triggers asking for the humidity trigger's value whatever the ON value.
desiredForBothHumidityWins(humVal, fanOnValue) == humVal

\* The value both triggers together ask for.

desiredForBoth(humVal, fanOnValue) ==
    IF humVal.t = "number" /\ fanOnValue.t = "number"
    THEN Num(IF humVal.n >= fanOnValue.n THEN humVal.n ELSE fanOnValue.n)
    ELSE humVal

\* _applyDesiredState leaving a pending off-timer alone when a trigger is active.
applyDesiredStateKeepsTimer(f) ==
    LET fanOnValue == parseConfigValue(f.cfg.fanOnValue)
        fanOffValue == parseConfigValue(f.cfg.fanOffValue)
        hasSpeed == f.cfg.fanSpeedValue # Str(<<>>) /\ f.cfg.fanSpeedValue # Null
        humVal == IF hasSpeed THEN parseConfigValue(f.cfg.fanSpeedValue) ELSE fanOnValue
        desiredValue ==
            IF f.humidityTrigger /\ f.presenceTrigger THEN desiredForBoth(humVal, fanOnValue)
            ELSE IF f.humidityTrigger THEN humVal
            ELSE IF f.presenceTrigger THEN fanOnValue
            ELSE Null
        triggerName ==
            IF f.humidityTrigger /\ f.presenceTrigger THEN "both"
            ELSE IF f.humidityTrigger THEN "humidity"
            ELSE IF f.presenceTrigger THEN "presence"
            ELSE "none"
        g == [f EXCEPT !.trigger = triggerName]
    IN  IF desiredValue # Null THEN sendFanCommand(g, desiredValue)
        ELSE IF g.lastCommandValue # Null /\ ~looseEquals(g.lastCommandValue, fanOffValue)
        THEN IF g.offTimer THEN g
             ELSE IF g.cfg.offDelay * 1000 <= 0 THEN sendFanCommand(g, fanOffValue)
             ELSE [g EXCEPT !.offTimer = TRUE, !.timers = @ + 1]
        ELSE g

applyDesiredState(f) ==
    LET fanOnValue == parseConfigValue(f.cfg.fanOnValue)
        fanOffValue == parseConfigValue(f.cfg.fanOffValue)
        hasSpeed == f.cfg.fanSpeedValue # Str(<<>>) /\ f.cfg.fanSpeedValue # Null
        humVal == IF hasSpeed THEN parseConfigValue(f.cfg.fanSpeedValue) ELSE fanOnValue
        desiredValue ==
            IF f.humidityTrigger /\ f.presenceTrigger THEN desiredForBoth(humVal, fanOnValue)
            ELSE IF f.humidityTrigger THEN humVal
            ELSE IF f.presenceTrigger THEN fanOnValue
            ELSE Null
        triggerName ==
            IF f.humidityTrigger /\ f.presenceTrigger THEN "both"
            ELSE IF f.humidityTrigger THEN "humidity"
            ELSE IF f.presenceTrigger THEN "presence"
            ELSE "none"
        g == [f EXCEPT !.trigger = triggerName]
    IN  IF desiredValue # Null THEN sendFanCommand(cancelOffTimer(g), desiredValue)
        ELSE IF g.lastCommandValue # Null /\ ~looseEquals(g.lastCommandValue, fanOffValue)
        THEN IF g.offTimer THEN g
             ELSE IF g.cfg.offDelay * 1000 <= 0 THEN sendFanCommand(g, fanOffValue)
             ELSE [g EXCEPT !.offTimer = TRUE, !.timers = @ + 1]
        ELSE g

\* The callback of the off-timer.
offTimerFired(f) ==
    LET g == [f EXCEPT !.offTimer = FALSE, !.timers = @ - 1]
    IN  IF ~g.humidityTrigger /\ ~g.presenceTrigger
        THEN LET h == sendFanCommand(g, parseConfigValue(g.cfg.fanOffValue))
             IN  IF h.threw THEN h ELSE [h EXCEPT !.trigger = "none"]
        ELSE g

\* onInputChange evaluating the input whatever the enabled output says.
onInputChangeAlways(f, inputId, val) ==
    CASE inputId = "humiditySensor" ->
             applyDesiredState(IF ToNumber(val).nan THEN f
                               ELSE evaluateHumidity(f, ToNumber(val).n))
      [] inputId \in {"presenceSensor", "doorContact"} ->
             applyDesiredState(evaluatePresence(f))
      [] OTHER -> [f EXCEPT !.active = ~looseEquals(val, statusOffValue)]

onInputChange(f, inputId, val) ==
    IF f.enabled # TRUE THEN f
    ELSE CASE inputId = "humiditySensor" ->
                  applyDesiredState(IF ToNumber(val).nan THEN f
                                    ELSE evaluateHumidity(f, ToNumber(val).n))
           [] inputId \in {"presenceSensor", "doorContact"} ->
                  applyDesiredState(evaluatePresence(f))
           [] OTHER -> [f EXCEPT !.active = ~looseEquals(val, statusOffValue)]

\* onOutputWrite(ctx, 'enabled', value).
onOutputWrite(f, value) ==
    LET g == [f EXCEPT !.enabled = value]
    IN  IF ~value THEN cancelOffTimer(g)
        ELSE applyDesiredState(evaluatePresence(evaluateCurrentHumidity(g)))

\* A device after onInit, none of its inputs having a state yet.
FanInit ==
    /\ ExecutorInit
    /\ match = NoCall
    /\ dehum = NoDevice
    /\ sw = NoDevice
    /\ fan \in {[plugin |-> "bathroom-fan", cfg |-> c,
                 inputs |-> [humiditySensor |-> Null, presenceSensor |-> Null,
                             doorContact |-> Null],
                 humidityTrigger |-> FALSE, presenceTrigger |-> FALSE,
                 offTimer |-> FALSE, lastCommandValue |-> Null,
                 active |-> FALSE, trigger |-> "none", enabled |-> TRUE,
                 timers |-> 0, sent |-> Null, fired |-> FALSE, cancelled |-> FALSE,
                 running |-> TRUE, busDown |-> FALSE, threw |-> FALSE,
                 chains |-> <<>>, activeChainExecutor |-> 0] : c \in FanConfigs}

\* What an event starts from: its handler has sent nothing, cancelled no
\* timer and thrown nothing yet.
FanAt(event) ==
    [fan EXCEPT !.sent = Null, !.fired = (event = "offTimer"), !.cancelled = FALSE,
                !.threw = FALSE]

\* The chains a device may have in flight at a time.
MaxChains == 2

\* The device is running (the adapter calls its handlers), and a chain more
\* can be started.
FanRunning == fan.running /\ Len(fan.chains) < MaxChains

\* A mapped input takes a new state and the adapter calls onInputChange.
InputChange ==
    /\ FanRunning
    /\ \E inputId \in {"humiditySensor", "presenceSensor", "doorContact", "fanStatus"} :
         \E val \in (CASE inputId = "humiditySensor" -> HumidityReadings
                       [] inputId = "fanStatus" -> {Num(0), Num(1)}
                       [] OTHER -> {Bool(TRUE), Bool(FALSE)}) :
            /\ inputId \in {"presenceSensor", "doorContact"} => fan.cfg.presenceMapped
            /\ fan' = onInputChange(
                         IF inputId = "fanStatus" THEN FanAt(inputId)
                         ELSE [FanAt(inputId) EXCEPT !.inputs[inputId] = val],
                         inputId, val)
    /\ UNCHANGED executorVars
    /\ UNCHANGED <<match, dehum, sw>>

\* onOutputWrite is called for the enabled output.
OutputWrite ==
    /\ FanRunning
    /\ \E value \in BOOLEAN : fan' = onOutputWrite(FanAt("onOutputWrite"), value)
    /\ UNCHANGED executorVars
    /\ UNCHANGED <<match, dehum, sw>>

\* The adapter acknowledges a write to the enabled output; the plugin is not called.
EnabledAcknowledged ==
    /\ FanRunning
    /\ \E value \in BOOLEAN : fan' = [FanAt("acknowledged") EXCEPT !.enabled = value]
    /\ UNCHANGED executorVars
    /\ UNCHANGED <<match, dehum, sw>>

OffTimerFires ==
    /\ fan.timers > 0
    /\ Len(fan.chains) < MaxChains
    /\ fan' = offTimerFired(FanAt("offTimer"))
    /\ UNCHANGED executorVars
    /\ UNCHANGED <<match, dehum, sw>>

FanNext ==
    \/ InputChange
    \/ OutputWrite
    \/ EnabledAcknowledged
    \/ OffTimerFires

FanSpec == FanInit /\ [][FanNext]_vars

-----------------------------------------------------------------------------
(* The bathroom fan on a bus that takes its time and may reject a write,    *)
(* with and without executeChain in the context, until the device is        *)
(* destroyed.  A chain started by _sendFanCommand runs on while the         *)
(* handlers of later events run.                                            *)

\* onDestroy(ctx).
onDestroy(f) ==
    LET f1 == cancelOffTimer(f)
        f2 == IF f1.activeChainExecutor # 0
              THEN [f1 EXCEPT !.chains[f1.activeChainExecutor] = abort(@)]
              ELSE f1
    IN  [f2 EXCEPT !.running = FALSE, !.humidityTrigger = FALSE,
                   !.presenceTrigger = FALSE, !.lastCommandValue = Null,
                   !.activeChainExecutor = 0]

\* A device after onInit: written to directly, through the single-step chain
\* _buildChain makes up, or through configured chains that switch a relay
\* before the fan command (ON) and after it (OFF).
FanBusInit ==
    /\ ExecutorInit
    /\ match = NoCall
    /\ dehum = NoDevice
    /\ sw = NoDevice
    /\ \E c \in {k \in FanConfigs : k.offDelay = 120 /\ k.fanSpeedValue = Str(<<"3">>)},
          x \in {<<FALSE, <<>>, <<>>>>,
                 <<TRUE, <<>>, <<>>>>,
                 <<TRUE, <<Step("relay", Bool(TRUE), NoWait), Step("fanCommand", Num(1), NoWait)>>,
                         <<Step("fanCommand", Num(0), NoWait), Step("relay", Bool(FALSE), NoWait)>>>>} :
          fan = [plugin |-> "bathroom-fan",
                 cfg |-> [c EXCEPT !.executeChain = x[1], !.chains = [on |-> x[2], off |-> x[3]]],
                 inputs |-> [humiditySensor |-> Null, presenceSensor |-> Null,
                             doorContact |-> Null],
                 humidityTrigger |-> FALSE, presenceTrigger |-> FALSE,
                 offTimer |-> FALSE, lastCommandValue |-> Null,
                 active |-> FALSE, trigger |-> "none", enabled |-> TRUE,
                 timers |-> 0, sent |-> Null, fired |-> FALSE, cancelled |-> FALSE,
                 running |-> TRUE, busDown |-> FALSE, threw |-> FALSE,
                 chains |-> <<>>, activeChainExecutor |-> 0]

\* The bus stops or starts carrying out direct writes.
BusFault ==
    /\ fan.running
    /\ ~fan.cfg.executeChain
    /\ fan' = [FanAt("bus") EXCEPT !.busDown = ~@]
    /\ UNCHANGED executorVars
    /\ UNCHANGED <<match, dehum, sw>>

\* The bus answers the write a chain has in flight, and execute() goes on: to
\* the next step's write, or to the end of the run, which leaves the list.
ChainWriteAnswered ==
    /\ \E k \in DOMAIN fan.chains, ok \in BOOLEAN :
         LET e == fan.chains[k]
             after == IF ok THEN writeReturned([e EXCEPT !.completed = @ + 1])
                      ELSE writeFailed(e, BusError("adapter offline"))
         IN  /\ e.pc = "write"
             /\ fan' = [FanAt("chain") EXCEPT
                           !.chains = IF after.pc = "done"
                                      THEN [j \in 1..(Len(@) - 1) |->
                                               IF j < k THEN @[j] ELSE @[j + 1]]
                                      ELSE [@ EXCEPT ![k] = after],
                           !.sent = FanCommandIssued(after, Len(e.written))]
    /\ UNCHANGED executorVars
    /\ UNCHANGED <<match, dehum, sw>>

\* The adapter stops the device: onDestroy is called, and no handler after it.
Destroy ==
    /\ fan.running
    /\ fan' = onDestroy(FanAt("onDestroy"))
    /\ UNCHANGED executorVars
    /\ UNCHANGED <<match, dehum, sw>>

FanBusNext ==
    \/ InputChange
    \/ OutputWrite
    \/ EnabledAcknowledged
    \/ OffTimerFires
    \/ BusFault
    \/ ChainWriteAnswered
    \/ Destroy

FanBusSpec == FanBusInit /\ [][FanBusNext]_vars

-----------------------------------------------------------------------------
(* The smart dehumidifier plugin (SmartDehumidifierPlugin) and the          *)
(* adapter's handling of writes to output states.  Every handler runs to    *)
(* its end before the next event.  Time is counted in seconds and advances  *)
(* with the ticks of the plugin's interval timer.                           *)

\* Ticks of the interval timer in one behaviour.
MaxTicks == 8

targetHumidity == 55
dehumidifierHysteresis == 3
tankFullPowerThreshold == 5
IntervalSeconds == 10

\* The configured tankFullDelay in seconds: a short one and the default.
TankFullDelays == {20, 60}

\* Readings of the humidity sensor: below the target, at the target, at
\* target + hysteresis, and above.
DehumidifierReadings == {54, 55, 58, 59}

\* Readings of the power meter: below the tank-full threshold, and at it.
PowerReadings == {2, 5}

\* The outputs the plugin declares, with their write flag; the devices that
\* are running.
OutputWritable == [running |-> FALSE, humidity |-> FALSE, power |-> FALSE,
                   tankFull |-> FALSE, enabled |-> TRUE]
RunningDevices == {"dehumidifier-1"}

\* No write to an output state was handled.
NoWrite == [deviceId |-> "", stateId |-> "", val |-> FALSE, acknowledged |-> FALSE,
            alarmReset |-> FALSE]

\* _isWithinSchedule: whether the clock is inside the configured window.
isWithinSchedule(d) == d.inSchedule

setSwitchState(d, on) ==
    [d EXCEPT !.commandedOn = on,
              !.sent = Bool(on),
              !.running = on,
              !.lowPowerSince = IF on THEN @ ELSE Null]

\* _handleHumidityChange turning the switch on at target + hysteresis already.
handleHumidityChangeAtBoundary(d, humidity) ==
    LET e == [d EXCEPT !.humidity = Num(humidity)]
    IN  IF e.enabled # TRUE THEN e
        ELSE IF e.tankFull = TRUE THEN e
        ELSE IF humidity >= targetHumidity + dehumidifierHysteresis
                /\ ~e.commandedOn /\ isWithinSchedule(e)
        THEN setSwitchState(e, TRUE)
        ELSE IF humidity < targetHumidity /\ e.commandedOn THEN setSwitchState(e, FALSE)
        ELSE IF ~isWithinSchedule(e) /\ e.commandedOn THEN setSwitchState(e, FALSE)
        ELSE e

\* _handleHumidityChange turning the switch off below target - hysteresis only.
handleHumidityChangeOffBelowBand(d, humidity) ==
    LET e == [d EXCEPT !.humidity = Num(humidity)]
    IN  IF e.enabled # TRUE THEN e
        ELSE IF e.tankFull = TRUE THEN e
        ELSE IF humidity > targetHumidity + dehumidifierHysteresis
                /\ ~e.commandedOn /\ isWithinSchedule(e)
        THEN setSwitchState(e, TRUE)
        ELSE IF humidity < targetHumidity - dehumidifierHysteresis /\ e.commandedOn
        THEN setSwitchState(e, FALSE)
        ELSE IF ~isWithinSchedule(e) /\ e.commandedOn THEN setSwitchState(e, FALSE)
        ELSE e

handleHumidityChange(d, humidity) ==
    LET e == [d EXCEPT !.humidity = Num(humidity)]
    IN  IF e.enabled # TRUE THEN e
        ELSE IF e.tankFull = TRUE THEN e
        ELSE IF humidity > targetHumidity + dehumidifierHysteresis
                /\ ~e.commandedOn /\ isWithinSchedule(e)
        THEN setSwitchState(e, TRUE)
        ELSE IF humidity < targetHumidity /\ e.commandedOn THEN setSwitchState(e, FALSE)
        ELSE IF ~isWithinSchedule(e) /\ e.commandedOn THEN setSwitchState(e, FALSE)
        ELSE e

\* _handlePowerChange keeping the low-power start at a reading equal to the threshold.
handlePowerChangeAboveOnly(d, reading) ==
    LET e == [d EXCEPT !.power = Num(reading)]
    IN  IF reading > tankFullPowerThreshold THEN [e EXCEPT !.lowPowerSince = Null] ELSE e

handlePowerChange(d, reading) ==
    LET e == [d EXCEPT !.power = Num(reading)]
    IN  IF reading >= tankFullPowerThreshold THEN [e EXCEPT !.lowPowerSince = Null] ELSE e

\* onInputChange of the dehumidifier, for a state with a value.
dehumidifierOnInputChange(d, inputId, val) ==
    CASE inputId = "humiditySensor" -> handleHumidityChange(d, val)
      [] inputId = "powerMeter" -> handlePowerChange(d, val)
      [] OTHER -> [d EXCEPT !.running = (val # 0)]

onInterval(d) ==
    IF d.commandedOn /\ ~isWithinSchedule(d) THEN setSwitchState(d, FALSE)
    ELSE IF ~d.commandedOn THEN d
    ELSE IF d.inputs.powerMeter = Null THEN d
    ELSE IF d.inputs.powerMeter.n < tankFullPowerThreshold
    THEN IF d.lowPowerSince = Null THEN [d EXCEPT !.lowPowerSince = Num(d.now)]
         ELSE IF (d.now - d.lowPowerSince.n) * 1000 >= d.cfg.tankFullDelay * 1000
         THEN setSwitchState([d EXCEPT !.tankFull = TRUE], FALSE)
         ELSE d
    ELSE [d EXCEPT !.lowPowerSince = Null]

\* _handleOutputStateChange acknowledging a write whatever the output.
handleOutputStateChangeAnyOutput(d, deviceId, stateId, val) ==
    IF deviceId \notin RunningDevices THEN d
    ELSE LET e == [d EXCEPT ![stateId] = val, !.handled.acknowledged = TRUE]
         IN  IF stateId = "enabled" /\ val = TRUE /\ e.tankFull = TRUE
             THEN [e EXCEPT !.tankFull = FALSE, !.handled.alarmReset = TRUE]
             ELSE e

\* _handleOutputStateChange for the write of val to the output stateId of the
\* device deviceId.
handleOutputStateChange(d, deviceId, stateId, val) ==
    IF deviceId \notin RunningDevices THEN d
    ELSE IF stateId \notin DOMAIN OutputWritable \/ ~OutputWritable[stateId] THEN d
    ELSE LET e == [d EXCEPT ![stateId] = val, !.handled.acknowledged = TRUE]
         IN  IF stateId = "enabled" /\ val = TRUE /\ e.tankFull = TRUE
             THEN [e EXCEPT !.tankFull = FALSE, !.handled.alarmReset = TRUE]
             ELSE e

\* A device after onInit, none of its inputs having a state yet.
DehumidifierInit ==
    /\ ExecutorInit
    /\ match = NoCall
    /\ fan = NoDevice
    /\ sw = NoDevice
    /\ dehum \in {[plugin |-> "smart-dehumidifier",
                   cfg |-> [tankFullDelay |-> delaySeconds],
                   inputs |-> [humiditySensor |-> Null, powerMeter |-> Null],
                   lowPowerSince |-> Null, commandedOn |-> FALSE,
                   running |-> FALSE, humidity |-> Null, power |-> Null,
                   tankFull |-> FALSE, enabled |-> TRUE,
                   now |-> 0, inSchedule |-> TRUE,
                   sent |-> Null, event |-> "onInit", highPower |-> FALSE,
                   handled |-> NoWrite, atRead |-> FALSE] : delaySeconds \in TankFullDelays}

\* What an event starts from: its handler has written nothing yet.
DehumidifierAt(event) == [dehum EXCEPT !.sent = Null, !.event = event, !.handled = NoWrite]

\* A power observation: one at or above the threshold is on record until the
\* next low-power start.
Observed(d, reading) ==
    IF reading >= tankFullPowerThreshold THEN [d EXCEPT !.highPower = TRUE] ELSE d

HumidityChange ==
    /\ \E reading \in DehumidifierReadings :
          dehum' = dehumidifierOnInputChange(
                      [DehumidifierAt("humiditySensor") EXCEPT
                          !.inputs.humiditySensor = Num(reading)],
                      "humiditySensor", reading)
    /\ UNCHANGED executorVars
    /\ UNCHANGED <<match, fan, sw>>

PowerChange ==
    /\ \E reading \in PowerReadings :
          dehum' = dehumidifierOnInputChange(
                      Observed([DehumidifierAt("powerMeter") EXCEPT
                                   !.inputs.powerMeter = Num(reading)], reading),
                      "powerMeter", reading)
    /\ UNCHANGED executorVars
    /\ UNCHANGED <<match, fan, sw>>

\* The switch reports a state of its own.
SwitchChange ==
    /\ \E val \in {0, 1} :
          dehum' = dehumidifierOnInputChange(DehumidifierAt("powerSwitch"), "powerSwitch", val)
    /\ UNCHANGED executorVars
    /\ UNCHANGED <<match, fan, sw>>

\* The interval timer fires, IntervalSeconds after its last tick.
Tick ==
    /\ dehum.now < MaxTicks * IntervalSeconds
    /\ LET d == [DehumidifierAt("onInterval") EXCEPT !.now = @ + IntervalSeconds]
           observed == IF d.commandedOn /\ isWithinSchedule(d) /\ d.inputs.powerMeter # Null
                       THEN Observed(d, d.inputs.powerMeter.n)
                       ELSE d
           e == onInterval(observed)
       IN  dehum' = IF e.lowPowerSince # Null /\ d.lowPowerSince = Null
                    THEN [e EXCEPT !.highPower = FALSE]
                    ELSE e
    /\ UNCHANGED executorVars
    /\ UNCHANGED <<match, fan, sw>>

\* The clock enters or leaves the schedule window.
ScheduleChange ==
    /\ dehum' = [DehumidifierAt("schedule") EXCEPT !.inSchedule = ~@]
    /\ UNCHANGED executorVars
    /\ UNCHANGED <<match, fan, sw>>

\* An output state of some device is written without ack.
OutputStateChange ==
    /\ \E deviceId \in RunningDevices \cup {"unknown-1"} :
         \E stateId \in {"enabled", "tankFull", "running"} :
           \E val \in BOOLEAN :
              dehum' = handleOutputStateChange(
                          [DehumidifierAt("write") EXCEPT
                              !.handled = [NoWrite EXCEPT !.deviceId = deviceId,
                                                          !.stateId = stateId,
                                                          !.val = val]],
                          deviceId, stateId, val)
    /\ UNCHANGED executorVars
    /\ UNCHANGED <<match, fan, sw>>

DehumidifierNext ==
    \/ HumidityChange
    \/ PowerChange
    \/ SwitchChange
    \/ Tick
    \/ ScheduleChange
    \/ OutputStateChange

DehumidifierSpec == DehumidifierInit /\ [][DehumidifierNext]_vars

-----------------------------------------------------------------------------
(* The dehumidifier with onInterval suspended at its read of the power      *)
(* meter: the handler of an input change may run between the check of       *)
(* commandedOn and the use of lowPowerSince.                                *)

\* onInterval up to `await ctx.getInputState('powerMeter')`.
onIntervalUntilRead(d) ==
    IF d.commandedOn /\ ~isWithinSchedule(d) THEN setSwitchState(d, FALSE)
    ELSE IF ~d.commandedOn THEN d
    ELSE [d EXCEPT !.atRead = TRUE]

\* onInterval from the answer to its read of the power meter.
onIntervalAfterRead(d) ==
    LET e == [d EXCEPT !.atRead = FALSE]
    IN  IF e.inputs.powerMeter = Null THEN e
        ELSE IF e.inputs.powerMeter.n < tankFullPowerThreshold
        THEN IF e.lowPowerSince = Null THEN [e EXCEPT !.lowPowerSince = Num(e.now)]
             ELSE IF (e.now - e.lowPowerSince.n) * 1000 >= e.cfg.tankFullDelay * 1000
             THEN setSwitchState([e EXCEPT !.tankFull = TRUE], FALSE)
             ELSE e
        ELSE [e EXCEPT !.lowPowerSince = Null]

\* The interval timer fires, and onInterval runs up to its read.
TickStarts ==
    /\ dehum.now < MaxTicks * IntervalSeconds
    /\ ~dehum.atRead
    /\ dehum' = onIntervalUntilRead([DehumidifierAt("onInterval") EXCEPT
                                       !.now = @ + IntervalSeconds])
    /\ UNCHANGED executorVars
    /\ UNCHANGED <<match, fan, sw>>

\* The read of the power meter is answered, and onInterval runs to its end.
TickResumes ==
    /\ dehum.atRead
    /\ dehum' = onIntervalAfterRead(DehumidifierAt("onInterval"))
    /\ UNCHANGED executorVars
    /\ UNCHANGED <<match, fan, sw>>

DehumidifierRaceNext ==
    \/ HumidityChange
    \/ PowerChange
    \/ TickStarts
    \/ TickResumes

DehumidifierRaceSpec == DehumidifierInit /\ [][DehumidifierRaceNext]_vars

-----------------------------------------------------------------------------
(* The conditional switch (ConditionalSwitchPlugin), in its two versions:   *)
(* "table" keeps its conditions as the rows of config.conditions and reads  *)
(* row i through the input _cond_i; "slots" has the four fixed inputs       *)
(* condition1..condition4 with their operator, value and altValue settings. *)
(* A row of the model is either: objectId = "" is a row without objectId,   *)
(* respectively a slot without mapped input.  _evaluate is taken as one     *)
(* step.  The adapter acknowledges a write to the output enabled without    *)
(* calling the plugin, which has no onOutputWrite.                          *)

\* The < operator on two strings: the order of their code units.
RECURSIVE StringLess(_, _)
StringLess(a, b) ==
    LET chars == <<" ">> \o Digits \o UpperCase \o LowerCase
        CharCode(c) == IF \E k \in 1..Len(chars) : chars[k] = c
                       THEN CHOOSE k \in 1..Len(chars) : chars[k] = c
                       ELSE 0
    IN  IF b = <<>> THEN FALSE
        ELSE IF a = <<>> THEN TRUE
        ELSE IF Head(a) = Head(b) THEN StringLess(Tail(a), Tail(b))
        ELSE CharCode(Head(a)) < CharCode(Head(b))

\* Number(configVal) of a text that is no numeric literal is NaN, the value
\* of type "nan".
parseValue(stateVal, configVal) ==
    CASE stateVal.t = "boolean" ->
             Bool(configVal \in {<<"t", "r", "u", "e">>, <<"1">>, <<"o", "n">>})
      [] stateVal.t = "number" ->
             IF StringToNumber(configVal).nan
             THEN [t |-> "nan", b |-> FALSE, n |-> 0, s |-> <<>>]
             ELSE Num(StringToNumber(configVal).n)
      [] OTHER -> Str(configVal)

evaluate(actual, operator, target) ==
    LET bothStrings == actual.t = "string" /\ target.t = "string"
        numeric == actual.t # "nan" /\ target.t # "nan"
        less(x, y) == IF bothStrings THEN StringLess(x.s, y.s)
                      ELSE numeric /\ ToNumber(x).n < ToNumber(y).n
        equal == numeric /\ AbstractEquals(actual, target)
    IN  CASE operator = ">" -> less(target, actual)
          [] operator = "<" -> less(actual, target)
          [] operator = ">=" -> less(target, actual) \/ equal
          [] operator = "<=" -> less(actual, target) \/ equal
          [] operator = "==" -> equal
          [] operator = "!=" -> ~equal
          [] OTHER -> FALSE

\* _setSwitches: the command goes to switch1 (and switch2, which follows it).
setSwitches(d, on) == [d EXCEPT !.sent = Bool(on), !.lastSwitch = Bool(on)]

\* Step 1 of _evaluate: whether the modifier input matches its trigger value.
modifierCheck(d) ==
    /\ d.cfg.modifier
    /\ d.modifier # Null
    /\ evaluate(d.modifier,
                IF d.cfg.modifier_operator = "" THEN "==" ELSE d.cfg.modifier_operator,
                parseValue(d.modifier, d.cfg.modifier_value))

\* The body of the loop without the alternative values.
conditionMetIgnoresAlt(d, k, modifierActive) ==
    LET cond == d.cfg.conditions[k]
        state == d.cond[k]
    IN  /\ state # Null
        /\ evaluate(state, cond.operator, parseValue(state, cond.value))

\* The body of the loop of _evaluate for a row that is not skipped: whether
\* the row leaves allMet as it is.
conditionMet(d, k, modifierActive) ==
    LET cond == d.cfg.conditions[k]
        state == d.cond[k]
        useAlt == modifierActive /\ cond.altValue # <<>>
        targetStr == IF useAlt THEN cond.altValue ELSE cond.value
    IN  /\ state # Null
        /\ evaluate(state, cond.operator, parseValue(state, targetStr))

\* The edge-triggered switching at the end of _evaluate.
switchOnEdge(d, allMet) ==
    IF allMet /\ ~d.active THEN [setSwitches(d, TRUE) EXCEPT !.active = TRUE]
    ELSE IF ~allMet /\ d.active THEN [setSwitches(d, FALSE) EXCEPT !.active = FALSE]
    ELSE d

\* _evaluate of the version with the table of conditions.
evaluateTable(d) ==
    IF ~d.enabled THEN [setSwitches(d, FALSE) EXCEPT !.active = FALSE]
    ELSE LET d1 == [d EXCEPT !.modifierActive = modifierCheck(d)]
             conditions == d.cfg.conditions
             skipped(k) == conditions[k].objectId = "" \/ conditions[k].operator = ""
             allMet == \A k \in 1..Len(conditions) :
                           skipped(k) \/ conditionMet(d1, k, d1.modifierActive)
         IN  IF Len(conditions) = 0
             THEN [setSwitches(d1, FALSE) EXCEPT !.active = FALSE]
             ELSE switchOnEdge(d1, allMet)

\* _evaluate of the version with the four condition slots.
evaluateSlots(d) ==
    IF ~d.enabled THEN setSwitches(d, FALSE)
    ELSE LET d1 == [d EXCEPT !.modifierActive = modifierCheck(d)]
             conditions == d.cfg.conditions
             skipped(k) == \/ conditions[k].objectId = ""
                           \/ conditions[k].operator = ""
                           \/ conditions[k].value = <<>>
             anyConfigured == \E k \in 1..Len(conditions) : ~skipped(k)
             allMet == \A k \in 1..Len(conditions) :
                           skipped(k) \/ conditionMet(d1, k, d1.modifierActive)
         IN  IF ~anyConfigured
             THEN [setSwitches(d1, FALSE) EXCEPT !.active = FALSE]
             ELSE switchOnEdge(d1, allMet)

\* _evaluate of the device's version, called by a handler.
SwitchEvaluate(d, caller) ==
    LET e == [d EXCEPT !.sent = Null, !.event = caller]
    IN  IF d.plugin = "table" THEN evaluateTable(e) ELSE evaluateSlots(e)

\* The configurations: the three of the unit tests' devices, a device without
\* conditions, and devices with a row lacking its objectId, a row lacking its
\* value, and a condition on a text.
SwitchConfigs ==
    LET Condition(id, op, value, alt) ==
            [objectId |-> id, operator |-> op, value |-> value, altValue |-> alt]
    IN
    {[conditions |-> <<Condition("sensor.0.temp", ">", <<"3", "0">>, <<>>),
                       Condition("sensor.0.door", "==", <<"t", "r", "u", "e">>, <<>>)>>,
      modifier |-> FALSE, modifier_operator |-> "==", modifier_value |-> <<>>],
     [conditions |-> <<Condition("sensor.0.temp", ">", <<"3", "0">>, <<"4", "0">>)>>,
      modifier |-> TRUE, modifier_operator |-> "==",
      modifier_value |-> <<"t", "r", "u", "e">>],
     [conditions |-> <<>>,
      modifier |-> FALSE, modifier_operator |-> "==", modifier_value |-> <<>>],
     [conditions |-> <<Condition("", ">", <<"3", "0">>, <<>>),
                       Condition("sensor.0.temp", "<=", <<"3", "5">>, <<"2", "5">>)>>,
      modifier |-> TRUE, modifier_operator |-> "",
      modifier_value |-> <<"t", "r", "u", "e">>],
     [conditions |-> <<Condition("sensor.0.mode", ">=", <<"a", "u", "t", "o">>, <<>>),
                       Condition("sensor.0.temp", ">", <<>>, <<>>)>>,
      modifier |-> FALSE, modifier_operator |-> "==", modifier_value |-> <<>>]}

\* What the datapoint of a condition or of the modifier can hold.
Readings(objectId) ==
    CASE objectId = "sensor.0.temp" -> {Num(25), Num(35), Num(45)}
      [] objectId = "sensor.0.door" -> {Bool(TRUE), Bool(FALSE)}
      [] objectId = "sensor.0.mode" -> {Str(<<"a", "u", "t", "o">>), Str(<<"O", "f", "f">>)}
      [] objectId = "tv.0.power" -> {Bool(TRUE), Bool(FALSE)}
      [] OTHER -> {}

\* The device after onInit, for each configuration and each content of the
\* datapoints at that time.
SwitchInit ==
    /\ ExecutorInit
    /\ match = NoCall
    /\ fan = NoDevice
    /\ dehum = NoDevice
    /\ \E version \in {"table", "slots"}, cfg \in SwitchConfigs :
           \E cond \in [1..Len(cfg.conditions) -> {Null} \cup Readings("sensor.0.temp")
                            \cup Readings("sensor.0.door") \cup Readings("sensor.0.mode")],
              modifier \in {Null} \cup Readings("tv.0.power") :
               /\ \A k \in 1..Len(cfg.conditions) :
                      cond[k] \in {Null} \cup Readings(cfg.conditions[k].objectId)
               /\ cfg.modifier \/ modifier = Null
               /\ sw = SwitchEvaluate([plugin |-> version, cfg |-> cfg, cond |-> cond,
                                       modifier |-> modifier, enabled |-> TRUE,
                                       active |-> FALSE, modifierActive |-> FALSE,
                                       sent |-> Null, lastSwitch |-> Null,
                                       event |-> "none"], "onInit")

\* The datapoint of a condition changes: onInputChange.
ConditionChange ==
    /\ \E k \in 1..Len(sw.cfg.conditions) :
           \E state \in Readings(sw.cfg.conditions[k].objectId) :
               sw' = SwitchEvaluate([sw EXCEPT !.cond[k] = state], "onInputChange")
    /\ UNCHANGED executorVars
    /\ UNCHANGED <<match, fan, dehum>>

\* The datapoint of the modifier changes: onInputChange.
ModifierChange ==
    /\ sw.cfg.modifier
    /\ \E state \in Readings("tv.0.power") :
           sw' = SwitchEvaluate([sw EXCEPT !.modifier = state], "onInputChange")
    /\ UNCHANGED executorVars
    /\ UNCHANGED <<match, fan, dehum>>

\* The switch reports the state it was commanded to: onInputChange for the
\* input switch1.
SwitchFeedback ==
    /\ sw.lastSwitch # Null
    /\ sw' = SwitchEvaluate(sw, "onInputChange")
    /\ UNCHANGED executorVars
    /\ UNCHANGED <<match, fan, dehum>>

\* A user writes the output enabled; the adapter acknowledges the value.
EnabledChange ==
    /\ \E value \in BOOLEAN :
           sw' = [sw EXCEPT !.enabled = value, !.sent = Null, !.event = "enabled"]
    /\ UNCHANGED executorVars
    /\ UNCHANGED <<match, fan, dehum>>

SwitchNext ==
    \/ ConditionChange
    \/ ModifierChange
    \/ SwitchFeedback
    \/ EnabledChange

SwitchSpec == SwitchInit /\ [][SwitchNext]_vars

-----------------------------------------------------------------------------
(* Properties.                                                              *)

\* The write step k (counted from 0) of chain c issues.
WriteOf(c, k) == [id |-> c[k + 1].objectId, value |-> c[k + 1].value, ack |-> FALSE]

\* The writes of the first n steps of chain c, in chain order.
WritesOf(c, n) == [k \in 1..n |-> WriteOf(c, k - 1)]

\* The wait of the current step.
CurrentWait == CurrentStep(Cur).waitBefore

\* C1: within one run the writes issued are those of steps 0..k in chain order;
\* the write of step N is issued only when the bus has carried out the writes of
\* all steps before it and, if step N waits on a delay or a state, only after
\* that wait has resolved (timer fired, or state matched at the read or by a
\* notification).
C1_WritesSequential ==
    /\ Len(written) <= Len(chain)
    /\ written = WritesOf(chain, Len(written))
    /\ Len(written) \in {completed, completed + 1}
    /\ Len(written) = completed + 1 => (pc = "write" \/ failure.op = "write")
    /\ pc = "write" =>
         /\ i = completed
         /\ Len(written) = i + 1
         /\ CurrentWait.type = "delay" => waitEndedBy = "timer" /\ waitResult = Resolved
         /\ CurrentWait.type = "state" =>
                waitEndedBy \in {"read", "notify"} /\ waitResult = Resolved

C1_Witness ==
    /\ pc = "write"
    /\ i = 1
    /\ Len(written) = 2
    /\ CurrentWait.type = "state"
    /\ waitEndedBy = "notify"

\* C2: once abort() was called while a delay wait was pending, the timer is
\* cancelled, the wait is rejected with the aborted error, the run rejects with
\* it, and only the writes of the steps before the waiting one were issued.
C2_AbortDuringDelay ==
    abortedDuring = "delay" =>
        /\ CurrentWait.type = "delay"
        /\ timer = "none"
        /\ waitResult = Rejected(AbortedError)
        /\ pc \in {"resume", "done"}
        /\ pc = "done" => outcome = Rejected(AbortedError)
        /\ written = WritesOf(chain, i)

C2_Witness ==
    /\ abortedDuring = "delay"
    /\ pc = "done"
    /\ i = 1
    /\ Len(written) = 1

\* C3: once abort() was called while a state wait was pending (its read in
\* flight, or its handler registered), the wait is rejected with the aborted
\* error, the run rejects with it and no further write is issued; a matching
\* notification delivered after the abort changes none of this.
C3_AbortDuringStateWait ==
    abortedDuring \in {"read", "watch"} =>
        /\ CurrentWait.type = "state"
        /\ timer = "none"
        /\ waitResult = Rejected(AbortedError)
        /\ waitEndedBy = "abort"
        /\ pc \in {"resume", "done"}
        /\ pc = "done" => outcome = Rejected(AbortedError)
        /\ written = WritesOf(chain, i)

C3_Witness ==
    /\ abortedDuring = "watch"
    /\ matchAfterAbort
    /\ pc = "done"
    /\ i = 1

\* C4: when the timeout of a state wait elapses before a matching notification,
\* the run rejects with the Timeout error of that wait; the writes of the steps
\* before the waiting one stand and no other write is issued.
C4_Timeout ==
    waitEndedBy = "timeout" =>
        /\ CurrentWait.type = "state"
        /\ pc = "done"
        /\ outcome = Rejected(TimeoutError(CurrentWait.objectId, CurrentWait.value))
        /\ written = WritesOf(chain, i)
        /\ completed = i
        /\ timer = "none"

C4_Witness ==
    /\ waitEndedBy = "timeout"
    /\ i = 1
    /\ Len(written) = 1

\* The value the bus holds for the target of the current state wait satisfies it.
TargetAtExpected ==
    /\ states[CurrentWait.objectId] # Null
    /\ looseEquals(states[CurrentWait.objectId], CurrentWait.value)

\* C5: a state wait whose target holds a matching value at the initial read
\* resolves at the read: no timer is armed, no handler is registered by it, and
\* the step's write is issued at once; the wait goes on to a handler and a
\* timer only when the value read does not match.
C5_AlreadyAtValue ==
    /\ [](waitEndedBy = "read" =>
            /\ timer = "none"
            /\ ~unsubscribe
            /\ ~stateHandler.current
            /\ waitResult = Resolved
            /\ written = WritesOf(chain, i + 1)
            /\ (pc = "write" \/ failure.op = "write"))
    /\ [][(pc = "read" /\ pc' = "watch") => ~TargetAtExpected]_vars

C5_Witness ==
    /\ waitEndedBy = "read"
    /\ pc = "write"
    /\ states[CurrentWait.objectId] = Str(<<"1">>)

\* C6: when the bus rejects the write of step k the run rejects with that very
\* error; the rejected write was issued once, no later write is issued and the
\* writes of the steps before stand.
C6_WriteError ==
    failure.op = "write" =>
        /\ pc = "done"
        /\ outcome = Rejected(BusError(failure.message))
        /\ written = WritesOf(chain, i + 1)
        /\ completed = i

C6_Witness ==
    /\ failure.op = "write"
    /\ i = 1
    /\ Len(written) = 2

\* The fields of the executor and what its caller observes.
executorState == <<aborted, timer, unsubscribe, rejectCurrent, stateHandler, settled,
                   waitResult, outcome, written>>

\* C7 as claimed: once a wait has settled, every later abort, notification or
\* timer is a no-op.
C7_LosersAreNoOps ==
    [][(pc = "resume" /\ waitEndedBy # "none" /\ pc' = "resume")
          => UNCHANGED executorState]_vars

\* C7 as amended: the event that settles a wait fixes its outcome for good, and
\* a later notification or timer changes nothing; a later abort() leaves the
\* wait's outcome alone but still sets the abort flag, so that a run whose wait
\* had resolved rejects as aborted without issuing the step's write.
C7_FirstSettleWins ==
    /\ [][(pc \notin {"idle", "done"} /\ waitEndedBy # "none") =>
            /\ waitEndedBy' \in {waitEndedBy, "none"}
            /\ waitEndedBy' = waitEndedBy => waitResult' = waitResult]_vars
    /\ [][(pc = "resume" /\ pc' = "resume") =>
            UNCHANGED <<timer, unsubscribe, rejectCurrent, stateHandler, settled,
                        waitResult, outcome, written>>]_vars
    /\ []((abortedDuring = "resume" /\ pc = "done") =>
            /\ outcome = Rejected(AbortedError)
            /\ written = WritesOf(chain, i))

C7_Witness ==
    /\ abortedDuring = "resume"
    /\ waitEndedBy = "notify"
    /\ waitResult = Resolved
    /\ pc = "done"

\* C8: a state handler is registered only while the state wait that registered
\* it is pending.
C8_HandlerReleased == stateHandler.set => pc = "watch"

\* C9: a timer is armed only while the wait that armed it is pending: the delay
\* timer during a delay wait, the timeout timer while the handler of a state
\* wait is registered.
C9_TimerReleased ==
    /\ pc \notin {"delay", "read", "watch"} => timer = "none"
    /\ timer = "delay" => pc = "delay"
    /\ timer = "timeout" => pc = "watch"

C9_Witness ==
    /\ pc = "write"
    /\ waitEndedBy = "notify"
    /\ timer = "none"

\* C10: execute() of a non-empty chain on an executor that was aborted before
\* rejects at once with the aborted error, without a write, a timer or a read.
C10_AbortBeforeExecute ==
    [][(pc = "idle" /\ aborted /\ pc' # "idle" /\ chain' # <<>>) =>
          /\ pc' = "done"
          /\ outcome' = Rejected(AbortedError)
          /\ written' = <<>>
          /\ timer' = "none"]_vars

\* C11: once the run has settled (resolved, or rejected by an error or by an
\* abort), nothing is armed, and a call of abort() or of onStateChange() leaves
\* the outcome and the writes as they are, issues no bus call and arms neither
\* a timer nor a handler: abort() only sets the abort flag, onStateChange()
\* changes nothing at all.
C11_TerminalIsFinal ==
    pc = "done" =>
        /\ outcome.state \in {"resolved", "rejected"}
        /\ timer = "none"
        /\ ~unsubscribe
        /\ rejectCurrent = "none"
        /\ abort(Cur) = [Cur EXCEPT !.aborted = TRUE]
        /\ \A id \in Targets, state \in BusValues \cup {Null} :
               onStateChange(Cur, id, state) = Cur

C11_Witness ==
    /\ pc = "done"
    /\ abortedDuring = "done"
    /\ aborted
    /\ outcome = Resolved
    /\ Len(written) = 2
    /\ stateHandler.set

\* C12: an executor runs one chain only: once its run has settled, a further
\* execute() starts no run (no wait, no read, no continuation) and issues no
\* write.
C12_NotReusable ==
    [][(pc = "done" /\ outcome.state \in {"resolved", "rejected"}) =>
          /\ pc' = "done"
          /\ Len(written') <= Len(written)]_vars

\* C13: abort() is idempotent: in every state, abort() called twice in a row
\* leaves the executor as abort() called once does, and the wait abort() has
\* rejected stays rejected with the aborted error; once abort() was called in
\* a run, a further abort() changes nothing, so the run's outcome is that of
\* the first call.
C13_AbortIdempotent ==
    /\ [](abort(abort(Cur)) = abort(Cur))
    /\ [](Cur.waitResult.state = "pending" =>
            /\ abort(Cur).waitResult = Rejected(AbortedError)
            /\ abort(abort(Cur)).waitResult = Rejected(AbortedError))
    /\ [](abortedDuring # "none" =>
            /\ aborted
            /\ abort(Cur) = Cur
            /\ pc = "done" /\ abortedDuring \in {"delay", "read", "watch", "resume"}
                  => outcome = Rejected(AbortedError))
    /\ [][(abortedAgain' /\ ~abortedAgain) =>
            UNCHANGED <<pc, chain, i, aborted, timer, unsubscribe, rejectCurrent,
                        stateHandler, settled, waitResult, outcome, written>>]_vars

C13_Witness ==
    /\ abortedAgain
    /\ abortedDuring = "delay"
    /\ pc = "done"
    /\ outcome = Rejected(AbortedError)
    /\ waitResult = Rejected(AbortedError)

\* What ended the run, read from its history: the bus rejected a write or the
\* initial read, the timeout of a state wait fired, or abort() was called
\* while the run still had a step to write.
WriteErrorEnded == failure.op = "write"
ReadErrorEnded == waitEndedBy = "readError"
TimeoutEnded == waitEndedBy = "timeout"
AbortEnded ==
    /\ abortedDuring \in {"delay", "read", "watch", "resume", "write"}
    /\ completed < Len(chain)
    /\ ~WriteErrorEnded

\* C14: a settled run reports one outcome, and the outcome tells what ended
\* the run: resolved exactly when every write was carried out; rejected with
\* the aborted error exactly when abort() stopped it; rejected with the
\* Timeout error of the wait when the timeout fired; rejected with the error of
\* the bus when a write or the initial read was rejected.  The aborted error
\* differs from the Timeout error and from the errors of the bus.
C14_OneOutcome ==
    /\ \A m \in BusErrors : BusError(m).message # AbortedError.message
    /\ \A id \in Targets, v \in BusValues :
          TimeoutError(id, v).message # AbortedError.message
    /\ pc = "done" =>
          /\ outcome.state \in {"resolved", "rejected"}
          /\ outcome = Resolved <=> completed = Len(chain)
          /\ outcome = Rejected(AbortedError) <=> AbortEnded
          /\ TimeoutEnded <=>
                /\ i < Len(chain)
                /\ outcome = Rejected(TimeoutError(CurrentWait.objectId, CurrentWait.value))
          /\ (WriteErrorEnded \/ ReadErrorEnded) <=>
                /\ failure.op # "none"
                /\ outcome = Rejected(BusError(failure.message))
          /\ TimeoutEnded => ~AbortEnded /\ ~WriteErrorEnded /\ ~ReadErrorEnded
          /\ ReadErrorEnded => ~AbortEnded /\ ~WriteErrorEnded

C14_Witness ==
    /\ pc = "done"
    /\ TimeoutEnded
    /\ abortedDuring = "done"
    /\ outcome = Rejected(TimeoutError(CurrentWait.objectId, CurrentWait.value))

\* C15: a chain of N steps without waits, on a bus that carries out every
\* write: the run is only ever suspended in a write, the writes issued are
\* those of the steps so far, in chain order, each with the step's target and
\* value and ack = false, each issued when the one before has been carried
\* out; the run goes on to resolve, and has then issued exactly the N writes.
C15_NoWaitChain ==
    /\ [](pc \in {"idle", "write", "done"})
    /\ [](timer = "none" /\ ~stateHandler.set /\ rejectCurrent = "none")
    /\ [](pc = "write" =>
            /\ written = WritesOf(chain, i + 1)
            /\ completed = i)
    /\ [](pc = "done" =>
            /\ outcome = Resolved
            /\ completed = Len(chain)
            /\ written = WritesOf(chain, Len(chain)))
    /\ (pc = "write" ~> (pc = "done" /\ outcome = Resolved))

C15_Witness ==
    /\ pc = "done"
    /\ Len(chain) = 2
    /\ chain[1] # chain[2]
    /\ outcome = Resolved
    /\ written = <<[id |-> chain[1].objectId, value |-> chain[1].value, ack |-> FALSE],
                   [id |-> chain[2].objectId, value |-> chain[2].value, ack |-> FALSE]>>

\* C16: execute() of an empty or absent chain resolves at once and has no
\* side effect: it issues no write and no read, arms no timer and no handler,
\* and leaves every field of the executor as it was.
C16_EmptyChain ==
    /\ (pc = "done" /\ chain = <<>>) =>
          /\ outcome = Resolved
          /\ written = <<>>
          /\ completed = 0
          /\ timer = "none"
          /\ ~unsubscribe
          /\ rejectCurrent = "none"
          /\ ~warned
          /\ failure = NoFailure
    /\ pc \in {"idle", "done"} =>
          \A arg \in ChainArgs :
             (arg.isNull \/ arg.steps = <<>>) =>
                LET e == execute(NewRun, arg)
                IN  /\ e.pc = "done"
                    /\ e.outcome = Resolved
                    /\ e.written = <<>>
                    /\ e.aborted = aborted
                    /\ e.timer = timer
                    /\ e.unsubscribe = unsubscribe
                    /\ e.rejectCurrent = rejectCurrent
                    /\ e.stateHandler = stateHandler
                    /\ e.settled = settled

C16_Witness ==
    /\ pc = "done"
    /\ chain = <<>>
    /\ outcome = Resolved
    /\ aborted
    /\ stateHandler.set
    /\ abortedDuring = "none"

\* C17 as claimed: when the bus rejects the write of the second step, the run
\* rejects with a WriteFailure error that wraps the error of the bus and names
\* the index (1) and the target of the step.
C17_WriteFailureWraps ==
    (failure.op = "write" /\ i = 1) =>
        /\ outcome.state = "rejected"
        /\ outcome.err.message = "WriteFailure"
        /\ outcome.err.objectId = CurrentStep(Cur).objectId
        /\ outcome.err.value = Num(1)

\* C17 as amended: when the bus rejects the write of the second step, the run
\* rejects with the error of the bus itself, not wrapped and without the
\* step's index or target; the write of the first step stands and the second
\* write was issued once.
C17_SecondWriteError ==
    (failure.op = "write" /\ i = 1) =>
        /\ pc = "done"
        /\ outcome.state = "rejected"
        /\ outcome.err = BusError(failure.message)
        /\ outcome.err.message \in BusErrors
        /\ outcome.err.objectId = ""
        /\ outcome.err.value = Null
        /\ Len(written) = 2
        /\ completed = 1

C17_Witness ==
    /\ failure = [op |-> "write", message |-> "adapter offline"]
    /\ i = 1
    /\ pc = "done"
    /\ outcome.err.message = "adapter offline"
    /\ written[1] = WriteOf(chain, 0)

\* C18: a step whose waitBefore is of a type other than delay and state does
\* not wait: a warning is logged, the wait resolves at once without a timer,
\* a handler or a read, and the step's write is issued next; the run does not
\* fail because of the condition (at such a step it ends only by an abort or
\* by the bus rejecting the write).
C18_UnknownWait ==
    /\ (pc \notin {"idle", "done"} /\ CurrentWait.type = "other") =>
          /\ warned
          /\ pc \in {"resume", "write"}
          /\ waitResult = Resolved
          /\ timer = "none"
          /\ ~unsubscribe
          /\ rejectCurrent = "none"
          /\ ~stateHandler.current \/ settled
          /\ written = WritesOf(chain, IF pc = "write" THEN i + 1 ELSE i)
    /\ (pc = "done" /\ i < Len(chain) /\ CurrentWait.type = "other") =>
          \/ outcome = Rejected(AbortedError) /\ abortedDuring # "none"
          \/ /\ outcome = Rejected(BusError(failure.message))
             /\ failure.op = "write"
             /\ warned
             /\ written = WritesOf(chain, i + 1)

C18_Witness ==
    /\ pc = "done"
    /\ outcome = Resolved
    /\ warned
    /\ Len(chain) = 2
    /\ chain[1].waitBefore.type = "other"
    /\ written = <<[id |-> "relay", value |-> Bool(FALSE), ack |-> FALSE],
                   [id |-> chain[2].objectId, value |-> chain[2].value, ack |-> FALSE]>>

\* C19: onStateChange(id, state) called while no state wait is pending on id
\* (no wait pending, a delay wait pending, or a state wait pending on another
\* target) returns with the executor as it was: no field changes, no wait is
\* resolved or rejected, the run goes on as it would have.
C19_StrayNotification ==
    /\ [](\A id \in Targets, state \in BusValues \cup {Null} :
            ~StateWaitPendingOn(id) => onStateChange(Cur, id, state) = Cur)
    /\ [][(strays' # strays /\ strays \subseteq strays') =>
            UNCHANGED <<pc, chain, i, aborted, timer, unsubscribe, rejectCurrent,
                        stateHandler, settled, waitResult, outcome, written,
                        lateRead, waitEndedBy>>]_vars

C19_Witness ==
    /\ strays = {"no wait", "delay wait", "state wait on another target"}
    /\ stateHandler.set
    /\ pc = "done"
    /\ outcome = Resolved
    /\ Len(written) = 2

\* C20: when the bus rejects the initial read of a state wait, the run rejects
\* at once with that error; no handler is registered and no timer armed
\* afterwards, no second read is issued, and neither the write of the waiting
\* step nor any later write is issued.
C20_ReadError ==
    waitEndedBy = "readError" =>
        /\ pc = "done"
        /\ failure.op = "read"
        /\ outcome = Rejected(BusError(failure.message))
        /\ CurrentWait.type = "state"
        /\ written = WritesOf(chain, i)
        /\ completed = i
        /\ lateRead # "current"
        /\ timer = "none"
        /\ ~unsubscribe
        /\ rejectCurrent = "none"
        /\ ~stateHandler.set

\* The two values are the same value of the same type.
SameValue == match.actual = match.expected

\* The two values have the same string form, letter case aside.
SameString == toLowerCase(String(match.actual)) = toLowerCase(String(match.expected))

\* C21 as claimed: looseEquals returns true exactly when the two values are
\* equal under a type-preserving comparison or their lowercase strings are
\* equal; no other pair of values matches.
C21_StrictOrString ==
    match.called => (match.result <=> (SameValue \/ SameString))

\* The pairs of values of different types that the == of JavaScript makes
\* equal although their strings differ: false, 0 and the strings "" and "0"
\* count as the number 0; true, 1 and the strings "01" and " 1" as the number 1.
CoercedMatches ==
    { {Bool(FALSE), Num(0)}, {Bool(FALSE), Str(<<>>)}, {Bool(FALSE), Str(<<"0">>)},
      {Num(0), Str(<<>>)},
      {Bool(TRUE), Num(1)}, {Bool(TRUE), Str(<<"1">>)}, {Bool(TRUE), Str(<<"0", "1">>)},
      {Bool(TRUE), Str(<<" ", "1">>)},
      {Num(1), Str(<<"0", "1">>)}, {Num(1), Str(<<" ", "1">>)} }

\* C21 as amended: looseEquals returns true exactly when the two values are
\* equal under the coercing == of JavaScript or their lowercase strings are
\* equal: besides the same value and the same string, values of different
\* types match when they denote the same number (0 and false, 0 and "", 1 and
\* true, true and "1", 1 and "01"), and nothing else matches.
C21_CoercingOrString ==
    match.called =>
        (match.result <=>
            \/ SameValue
            \/ SameString
            \/ {match.actual, match.expected} \in CoercedMatches)

C21_Witness ==
    /\ match.called
    /\ match.actual = Num(0)
    /\ match.expected = Bool(FALSE)
    /\ match.result
    /\ ~SameString

\* C22: looseEquals(1, "1"), looseEquals(true, "true") and looseEquals("1", 1)
\* are true; looseEquals(0, "false") is false.
C22_Examples ==
    match.called =>
        /\ (match.actual = Num(1) /\ match.expected = Str(<<"1">>)) => match.result
        /\ (match.actual = Bool(TRUE) /\ match.expected = Str(<<"t", "r", "u", "e">>))
              => match.result
        /\ (match.actual = Str(<<"1">>) /\ match.expected = Num(1)) => match.result
        /\ (match.actual = Num(0) /\ match.expected = Str(<<"f", "a", "l", "s", "e">>))
              => ~match.result

C22_Witness ==
    /\ match.called
    /\ match.actual = Bool(TRUE)
    /\ match.expected = Str(<<"t", "r", "u", "e">>)
    /\ match.result

-----------------------------------------------------------------------------
(* Properties of the bathroom fan.                                          *)

\* The OFF value of the device, as commands carry it.
FanOffValue == parseConfigValue(fan.cfg.fanOffValue)

\* v is a command that turns the fan off.
IsOffCommand(v) == v # Null /\ looseEquals(v, FanOffValue)

\* The last command sent to device f did not turn the fan off.
CommandedOn(f) == f.lastCommandValue # Null /\ ~looseEquals(f.lastCommandValue, FanOffValue)

FanCommandedOn == CommandedOn(fan)

TriggersClear == ~fan.humidityTrigger /\ ~fan.presenceTrigger

\* The current reading of the humidity sensor (0 before the first one).
Reading == IF fan.inputs.humiditySensor = Null THEN 0 ELSE fan.inputs.humiditySensor.n

C24_Hysteresis ==
    /\ [][(fan'.humidityTrigger /\ ~fan.humidityTrigger) =>
              /\ Reading' > humidityThreshold
              /\ CommandedOn(fan')
              /\ ~fan'.offTimer]_vars
    /\ [][(fan.enabled /\ fan'.inputs.humiditySensor # fan.inputs.humiditySensor
           /\ Reading' > humidityThreshold) => fan'.humidityTrigger]_vars
    /\ [][(fan.humidityTrigger /\ ~fan'.humidityTrigger) =>
              Reading' < humidityThreshold - humidityHysteresis]_vars
    /\ [][(Reading' >= humidityThreshold - humidityHysteresis
           /\ Reading' <= humidityThreshold) =>
              /\ fan'.humidityTrigger = fan.humidityTrigger
              /\ (fan.humidityTrigger => ~IsOffCommand(fan'.sent) /\ CommandedOn(fan'))]_vars

\* A reading inside the band has arrived and the trigger is still active, with
\* the fan on.
C24_Witness ==
    /\ fan.humidityTrigger
    /\ Reading = 62
    /\ FanCommandedOn
    /\ fan.trigger = "humidity"

\* C25: while the enabled output is false, no change of an input (humidity,
\* presence, door, fan status) writes to a foreign datapoint.
C25_DisabledIgnoresInputs ==
    /\ [](fan.enabled = FALSE =>
            \A inputId \in {"humiditySensor", "presenceSensor", "doorContact", "fanStatus"} :
                \A val \in HumidityReadings \cup {Num(0), Num(1), Bool(TRUE), Bool(FALSE)} :
                    LET g == onInputChange(FanAt(inputId), inputId, val)
                    IN  g.sent = Null /\ g.lastCommandValue = fan.lastCommandValue)
    /\ [][(fan.enabled = FALSE /\ fan'.enabled = FALSE /\ ~fan'.fired) =>
              fan'.sent = Null /\ fan'.lastCommandValue = fan.lastCommandValue]_vars

\* A reading above the threshold arrived at a disabled device and nothing was
\* evaluated or sent.
C25_Witness ==
    /\ fan.enabled = FALSE
    /\ Reading = 70
    /\ ~fan.humidityTrigger
    /\ fan.sent = Null

\* The value the humidity trigger asks for, as configured.
HumidityValue ==
    IF fan.cfg.fanSpeedValue # Str(<<>>) THEN fan.cfg.fanSpeedValue ELSE fan.cfg.fanOnValue

\* Both command values of the device are numbers.
NumericValues == ~ToNumber(HumidityValue).nan /\ ~ToNumber(fan.cfg.fanOnValue).nan

\* C26: while both triggers are active the trigger output is 'both' and the
\* value commanded is the higher of the humidity value (fanSpeedValue if
\* configured, else fanOnValue) and fanOnValue, as numbers.
C26_BothTriggers ==
    (fan.humidityTrigger /\ fan.presenceTrigger) =>
        /\ fan.trigger = "both"
        /\ NumericValues =>
              /\ fan.lastCommandValue.t = "number"
              /\ fan.lastCommandValue.n >= ToNumber(HumidityValue).n
              /\ fan.lastCommandValue.n >= ToNumber(fan.cfg.fanOnValue).n
              /\ fan.lastCommandValue.n \in {ToNumber(HumidityValue).n,
                                             ToNumber(fan.cfg.fanOnValue).n}
              /\ fan.sent \in {Null, fan.lastCommandValue}

\* Both triggers are active on a device whose speed value is above its ON
\* value, and the speed value was written.
C26_Witness ==
    /\ fan.humidityTrigger
    /\ fan.presenceTrigger
    /\ fan.cfg.fanSpeedValue = Str(<<"3">>)
    /\ fan.sent = Num(3)
    /\ fan.trigger = "both"

-----------------------------------------------------------------------------
(* Properties of the dehumidifier and of the handling of output writes.     *)

\* C27: a humidity reading commands the switch ON only if, at that reading,
\* enabled is true, tankFull is not true, the schedule allows operation and
\* the humidity is above targetHumidity + humidityHysteresis; a reading equal
\* to target + hysteresis never turns it on.  Nothing else commands it ON.
C27_OnOnlyWhenAllowed ==
    /\ dehum.sent = Bool(TRUE) =>
          /\ dehum.event = "humiditySensor"
          /\ dehum.enabled = TRUE
          /\ dehum.tankFull # TRUE
          /\ dehum.inSchedule
          /\ dehum.humidity = dehum.inputs.humiditySensor
          /\ dehum.humidity.n > targetHumidity + dehumidifierHysteresis
          /\ dehum.commandedOn
    /\ handleHumidityChange(DehumidifierAt("humiditySensor"),
                            targetHumidity + dehumidifierHysteresis).sent # Bool(TRUE)

\* The reading 59 has turned the switch on.
C27_Witness ==
    /\ dehum.sent = Bool(TRUE)
    /\ dehum.humidity = Num(59)
    /\ dehum.running

EnabledWritten(h) ==
    h.deviceId \in RunningDevices /\ h.stateId = "enabled"

\* C30: a write of true without ack to the enabled output of a running device
\* whose tankFull is true is acknowledged and sets tankFull to false; a write
\* to an output that is not writable, or for an unknown device, is neither
\* acknowledged nor acted on.
C30_ReEnableResetsAlarm ==
    /\ [](dehum.event = "write" =>
            /\ dehum.handled.acknowledged <=> EnabledWritten(dehum.handled)
            /\ dehum.handled.acknowledged => dehum.enabled = dehum.handled.val
            /\ (EnabledWritten(dehum.handled) /\ dehum.handled.val) => ~dehum.tankFull
            /\ dehum.handled.alarmReset =>
                  dehum.handled.acknowledged /\ dehum.handled.val)
    /\ [][(dehum'.event = "write" /\ EnabledWritten(dehum'.handled)
           /\ dehum'.handled.val /\ dehum.tankFull) =>
              dehum'.handled.alarmReset /\ ~dehum'.tankFull]_vars
    /\ [][(dehum'.event = "write" /\ ~EnabledWritten(dehum'.handled)) =>
              dehum' = [dehum EXCEPT !.sent = Null, !.event = "write",
                                     !.handled = dehum'.handled]]_vars

\* The tank-full alarm was reset by writing enabled = true.
C30_Witness ==
    /\ dehum.event = "write"
    /\ dehum.handled.alarmReset
    /\ dehum.handled.acknowledged
    /\ dehum.enabled = TRUE
    /\ ~dehum.tankFull

-----------------------------------------------------------------------------
(* Properties of the executor under races: calls and notifications that     *)
(* arrive while a bus call of the run is in flight.                         *)

\* C34: when abort() is first called while a step's write is in flight, the
\* write stays in flight (it is not cancelled and the run is still pending),
\* no further write is issued, and the run settles when the bus answers the
\* write: as Aborted if steps remain, as Completed if the write was the last
\* step's, and with the write's error if the bus rejects the write.
C34_AbortDuringWrite ==
    /\ [](abortedDuring = "write" =>
            /\ pc \in {"write", "done"}
            /\ pc = "write" => outcome = Pending /\ Len(written) = completed + 1
            /\ (pc = "done" /\ failure.op = "none") =>
                  /\ Len(written) = completed
                  /\ outcome = IF completed = Len(chain)
                               THEN Resolved ELSE Rejected(AbortedError)
            /\ (pc = "done" /\ failure.op # "none") =>
                  /\ failure.op = "write"
                  /\ outcome = Rejected(BusError(failure.message)))
    /\ [][(abortedDuring = "write" /\ abortedDuring' = "write") =>
              written' = written]_vars

\* abort() came during the first write of a chain of two steps, and the run
\* was aborted once that write had been carried out.
C34_Witness ==
    /\ abortedDuring = "write"
    /\ pc = "done"
    /\ Len(chain) = 2
    /\ completed = 1
    /\ Len(written) = 1
    /\ outcome = Rejected(AbortedError)

\* The notification (id, state) is for the target the step at hand waits on
\* and carries a value its waitBefore.value matches.
Awaited(id, state) ==
    /\ id = CurrentStep(Cur).waitBefore.objectId
    /\ state # Null
    /\ looseEquals(state, CurrentStep(Cur).waitBefore.value)

\* C36: while the handler of a state wait is registered and its timeout timer
\* armed, a notification for the awaited target that is null or carries a
\* value that does not match changes nothing (the wait stays pending, handler
\* and timer stay, nothing is written); one with a matching value resolves
\* the wait and disarms the timer, and the continuation of execute() then
\* issues the step's write.
C36_NotifyWhilePending ==
    pc = "watch" =>
        /\ waitResult = Pending /\ stateHandler.set /\ timer = "timeout" /\ ~aborted
        /\ \A state \in BusValues \cup {Null} :
              LET id == CurrentStep(Cur).waitBefore.objectId
                  after == onStateChange(Cur, id, state)
              IN  IF Awaited(id, state)
                  THEN /\ after.waitResult = Resolved
                       /\ after.timer = "none"
                       /\ after.written = written
                       /\ resume(after).pc = "write"
                       /\ resume(after).written =
                             Append(written, [id |-> CurrentStep(Cur).objectId,
                                              value |-> CurrentStep(Cur).value,
                                              ack |-> FALSE])
                  ELSE after = Cur

\* A notification resolved the pending state wait of a step that followed a
\* written step, and the step's write is in flight.
C36_Witness ==
    /\ waitEndedBy = "notify"
    /\ pc = "write"
    /\ i = 1
    /\ chain[2].waitBefore.type = "state"
    /\ Len(written) = 2
    /\ written[2].id = chain[2].objectId

\* C32: a state wait during which the awaited target held a matching value,
\* with the notification of it delivered to onStateChange() while the initial
\* read was still in flight, does not end by its timeout.
C32_NeverMisses == ~(matchDuringRead /\ waitEndedBy = "timeout")

\* The run has reached a terminal state: execute() has resolved or rejected.
Settled == outcome.state \in {"resolved", "rejected"}

\* C35: when every bus call is answered and every armed timer fires unless
\* cancelled, a run that was started settles; it settles once (the outcome of
\* a settled run does not change and nothing more is written); a state wait
\* whose handler is registered ends, and after an abort() during a wait the
\* run settles.
C35_RunSettles ==
    /\ (outcome = Pending) ~> Settled
    /\ (pc = "watch") ~> (pc # "watch")
    /\ (abortedDuring \in {"delay", "read", "watch"}) ~> Settled
    /\ [][Settled => (Settled' /\ outcome' = outcome /\ written' = written)]_vars

\* A run whose state wait ended by its timeout has settled, as failed.
C35_Witness ==
    /\ Settled
    /\ pc = "done"
    /\ waitEndedBy = "timeout"
    /\ outcome.state = "rejected"
    /\ outcome.err.message = "Timeout waiting for"

-----------------------------------------------------------------------------
(* Properties of the bathroom fan's commands on a slow or failing bus.      *)

\* C33: of the fan command chains of a device that are in flight, at most one
\* has not been aborted: a chain is started only after abort() was called on
\* the executor of every earlier one still running.
C33_OneChainInFlight ==
    Cardinality({k \in DOMAIN fan.chains : ~fan.chains[k].aborted}) <= 1

\* C37: once onDestroy has returned, no event issues a write to the fan
\* command datapoint.
C37_NoWriteAfterDestroy == ~fan.running => fan.sent = Null

\* C38: when the write of a fan command was rejected, the next
\* _sendFanCommand for the same value, on a bus that works again, writes it.
C38_FailedCommandIsResent ==
    fan.threw =>
        sendFanCommand([fan EXCEPT !.busDown = FALSE, !.threw = FALSE],
                       fan.lastCommandValue).sent = fan.lastCommandValue

-----------------------------------------------------------------------------
(* Properties of the dehumidifier's low-power timestamp.                    *)

\* C39: no low-power timestamp is on record while the switch is not
\* commanded on.
C39_LowPowerSinceOnlyWhileOn == ~dehum.commandedOn => dehum.lowPowerSince = Null

-----------------------------------------------------------------------------
(* Properties of the conditional switch.                                    *)

\* The condition of row k is configured: _evaluate does not skip it.
Configured(d, k) ==
    LET row == d.cfg.conditions[k]
    IN  /\ row.objectId # ""
        /\ row.operator # ""
        /\ d.plugin = "slots" => row.value # <<>>

\* The datapoint of the modifier holds a value that matches the trigger value.
ModifierHolds(d) ==
    /\ d.cfg.modifier
    /\ d.modifier # Null
    /\ evaluate(d.modifier,
                IF d.cfg.modifier_operator = "" THEN "==" ELSE d.cfg.modifier_operator,
                parseValue(d.modifier, d.cfg.modifier_value))

\* The value row k is compared against: its alternative value when the modifier
\* is active and an alternative value is set, its normal value otherwise.
Threshold(d, k) ==
    LET row == d.cfg.conditions[k]
    IN  IF ModifierHolds(d) /\ row.altValue # <<>> THEN row.altValue ELSE row.value

\* Every configured condition has a value at its input and evaluates true.
EveryConditionTrue(d) ==
    \A k \in 1..Len(d.cfg.conditions) :
        Configured(d, k) =>
            /\ d.cond[k] # Null
            /\ evaluate(d.cond[k], d.cfg.conditions[k].operator,
                        parseValue(d.cond[k], Threshold(d, k)))

\* _evaluate has just run on an enabled device of the version with the table
\* that has a configured condition.
EvaluatedEnabled ==
    /\ sw.plugin = "table"
    /\ sw.event \in {"onInit", "onInputChange"}
    /\ sw.enabled
    /\ \E k \in 1..Len(sw.cfg.conditions) : Configured(sw, k)

C40_ActiveMeansOn ==
    (sw.plugin = "slots" /\ sw.active) => sw.lastSwitch # Bool(FALSE)

====
